---- MODULE Spec2Model ----
(***************************************************************************)
(* Model of the swap program's instruction processor                       *)
(* (swap-contract-main/src/processor.rs) and of its build-time governance  *)
(* constraints (swap-contract-main/src/constraints.rs).                    *)
(*                                                                         *)
(* Public keys are small integers; 0 is Pubkey::default(), the content of  *)
(* a zeroed record.  A handler is one action: it reads its arguments and   *)
(* account list (drawn with \E), runs the checks of the code in the code's *)
(* order and leaves the outcome in `last`.  Account lists are complete     *)
(* (next_account_info never fails) and the system-program calls that       *)
(* allocate the GlobalState record succeed.  The model shows the account   *)
(* buffers as the handler leaves them when it returns; the handler itself  *)
(* undoes nothing.                                                         *)
(***************************************************************************)
EXTENDS Integers, Sequences, FiniteSets, TLC

VARIABLES
    state,      \* the GlobalState record (ProgramState) behind state_info
    written,    \* history: some UpdateGlobalState has returned Ok
    pool,       \* the Pool record (SwapVersion) behind swap_info
    ledger,     \* amounts of the token accounts and supplies of the mints
    trades,     \* history: the trading and liquidity operations that succeeded
    last,       \* the last invocation: handler, arguments that decide it, result
    call        \* the last application of a pure validation function

vars == <<state, written, pool, ledger, trades, last, call>>

(***************************************************************************)
(* Bounds of the model.                                                    *)
(***************************************************************************)
NumKeys == 2

\* The number of trading and liquidity operations that succeed in one run.
MaxTrades == 1

Keys == 1..NumKeys

(***************************************************************************)
(* Program constants.                                                      *)
(***************************************************************************)
\* processor.rs:39 and constraints.rs:54 hold the same base58 string.
INITIAL_STATE_OWNER == 1

OWNER_KEY == 1

FEES == [fixed_fee_numerator |-> 20, return_fee_numerator |-> 10, fee_denominator |-> 10000]

VALID_CURVE_TYPES == {"ConstantProduct"}

SWAP_CONSTRAINTS == [owner_key |-> OWNER_KEY, valid_curve_types |-> VALID_CURVE_TYPES, fees |-> FEES]

\* curve::calculator::INITIAL_SWAP_POOL_AMOUNT, the default initial_supply;
\* the model takes a value above MIN_LP_SUPPLY.
INITIAL_SWAP_POOL_AMOUNT == 1000000

\* The key of the liquidity provider and trader.
UserKey == 2

(***************************************************************************)
(* Curves.  A SwapCurve is a declared kind and a boxed calculator; the     *)
(* calculator reports its own kind.                                        *)
(***************************************************************************)
CurveType == {"ConstantProduct", "ConstantPrice"}

Calculators == {"ConstantProductCurve", "ConstantPriceCurve"}

get_curve_type(calculator) ==
    IF calculator = "ConstantProductCurve" THEN "ConstantProduct" ELSE "ConstantPrice"

SwapCurves == [curve_type : CurveType, calculator : Calculators]

ConstantProductSwapCurve == [curve_type |-> "ConstantProduct", calculator |-> "ConstantProductCurve"]

\* calculator.validate(): the constant-product calculator has no parameters
\* and is always valid.
calculator_validate(calculator) == "Ok"

\* fees.validate(): each numerator is below the denominator.
fees_validate(fees) ==
    IF /\ fees.fixed_fee_numerator < fees.fee_denominator
       /\ fees.return_fee_numerator < fees.fee_denominator
    THEN "Ok" ELSE "InvalidFee"

(***************************************************************************)
(* constraints.rs: SwapConstraints::validate_curve, validate_fees          *)
(***************************************************************************)
validate_curve_declared_only(self, swap_curve) ==
    IF swap_curve.curve_type \in self.valid_curve_types
    THEN "Ok" ELSE "UnsupportedCurveType"

validate_curve(self, swap_curve) ==
    IF /\ \E x \in self.valid_curve_types : x = swap_curve.curve_type
       /\ \E x \in self.valid_curve_types : x = get_curve_type(swap_curve.calculator)
    THEN "Ok" ELSE "UnsupportedCurveType"

validate_fees_strict(self, fees) ==
    IF /\ fees.return_fee_numerator > self.fees.return_fee_numerator
       /\ fees.fixed_fee_numerator > self.fees.fixed_fee_numerator
       /\ fees.fee_denominator = self.fees.fee_denominator
    THEN "Ok" ELSE "InvalidFee"

validate_fees(self, fees) ==
    IF /\ fees.return_fee_numerator >= self.fees.return_fee_numerator
       /\ fees.fixed_fee_numerator >= self.fees.fixed_fee_numerator
       /\ fees.fee_denominator = self.fees.fee_denominator
    THEN "Ok" ELSE "InvalidFee"

(***************************************************************************)
(* The GlobalState record.                                                 *)
(***************************************************************************)
ZeroFees == [fixed_fee_numerator |-> 0, return_fee_numerator |-> 0, fee_denominator |-> 0]

\* state_info before the first administrative write: no data.
EmptyState ==
    [data_is_empty |-> TRUE, is_initialized |-> FALSE, initial_supply |-> 0,
     state_owner |-> 0, fee_owner |-> 0, fees |-> ZeroFees,
     swap_curve |-> ConstantProductSwapCurve]

NoCall == [fn |-> "none", fees |-> ZeroFees, swap_curve |-> ConstantProductSwapCurve, result |-> "Ok"]

NoInvocation == [op |-> "none", result |-> "Ok", issued |-> <<>>]

\* The record UpdateGlobalState writes into a record it finds uninitialized.
DefaultState ==
    [data_is_empty |-> FALSE, is_initialized |-> TRUE,
     initial_supply |-> INITIAL_SWAP_POOL_AMOUNT,
     state_owner |-> INITIAL_STATE_OWNER,
     fee_owner |-> SWAP_CONSTRAINTS.owner_key,
     fees |-> [fixed_fee_numerator |-> SWAP_CONSTRAINTS.fees.fixed_fee_numerator,
               return_fee_numerator |-> SWAP_CONSTRAINTS.fees.return_fee_numerator,
               fee_denominator |-> SWAP_CONSTRAINTS.fees.fee_denominator],
     swap_curve |-> ConstantProductSwapCurve]

\* The address derived from AMM_STATE_SEED and the program id, and another one.
AmmStateAddress == "AmmState"

StateKeys == {AmmStateAddress, "OtherAccount"}

check_state_account(key) ==
    IF AmmStateAddress # key THEN "InvalidStateAddress" ELSE "Ok"

(***************************************************************************)
(* Inputs of the validation functions and of UpdateGlobalState.            *)
(***************************************************************************)
FixedDomain == {0, 19, 20, 21, 9999, 10000}

ReturnDomain == {0, 9, 10, 11, 10000}

DenominatorDomain == {0, 9999, 10000, 10001}

FeeDomain ==
    [fixed_fee_numerator : FixedDomain, return_fee_numerator : ReturnDomain,
     fee_denominator : DenominatorDomain]

Fee(f, r, d) == [fixed_fee_numerator |-> f, return_fee_numerator |-> r, fee_denominator |-> d]

\* Fee schedules offered to UpdateGlobalState: the floor, one above it, one
\* below it in each numerator, a foreign denominator, and one that meets the
\* floor but is not below its own denominator.
FeeArgs ==
    {Fee(20, 10, 10000), Fee(21, 11, 10000), Fee(19, 10, 10000), Fee(20, 9, 10000),
     Fee(20, 10, 10001), Fee(10000, 10, 10000)}

\* (fees, curve) pairs offered to UpdateGlobalState: every fee schedule with
\* the constant-product curve, every curve with the floor schedule, and a
\* schedule below the floor with a curve that is not allowed.
FeeCurveArgs ==
    {<<f, ConstantProductSwapCurve>> : f \in FeeArgs}
        \cup {<<Fee(20, 10, 10000), c>> : c \in SwapCurves}
        \cup {<<Fee(19, 10, 10000), [curve_type |-> "ConstantPrice", calculator |-> "ConstantPriceCurve"]>>}

\* Fee recipients offered to UpdateGlobalState: the governance owner key and
\* another key.
FeeOwnerArgs == {OWNER_KEY, UserKey}

SupplyArgs == {INITIAL_SWAP_POOL_AMOUNT, 0}

(***************************************************************************)
(* processor.rs: Processor::process_update_state.  The result and the      *)
(* GlobalState record as the handler leaves it.                            *)
(***************************************************************************)
update_checks_no_owner_check(program_state, a) ==
    IF validate_curve(SWAP_CONSTRAINTS, a.swap_curve) # "Ok"
        THEN validate_curve(SWAP_CONSTRAINTS, a.swap_curve)
    ELSE IF validate_fees(SWAP_CONSTRAINTS, a.fees) # "Ok"
        THEN validate_fees(SWAP_CONSTRAINTS, a.fees)
    ELSE IF fees_validate(a.fees) # "Ok"
        THEN fees_validate(a.fees)
    ELSE calculator_validate(a.swap_curve.calculator)

update_checks_no_constraints(program_state, a) ==
    IF program_state.state_owner # a.cur_state_owner
        THEN "InvalidStateOwner"
    ELSE IF fees_validate(a.fees) # "Ok"
        THEN fees_validate(a.fees)
    ELSE calculator_validate(a.swap_curve.calculator)

\* lines 353-362: the checks made on the unpacked (or just populated) record
update_checks(program_state, a) ==
    IF program_state.state_owner # a.cur_state_owner
        THEN "InvalidStateOwner"
    ELSE IF validate_curve(SWAP_CONSTRAINTS, a.swap_curve) # "Ok"
        THEN validate_curve(SWAP_CONSTRAINTS, a.swap_curve)
    ELSE IF validate_fees(SWAP_CONSTRAINTS, a.fees) # "Ok"
        THEN validate_fees(SWAP_CONSTRAINTS, a.fees)
    ELSE IF fees_validate(a.fees) # "Ok"
        THEN fees_validate(a.fees)
    ELSE calculator_validate(a.swap_curve.calculator)

new_program_state_default_fee_owner(program_state, a) ==
    [data_is_empty |-> FALSE, is_initialized |-> TRUE,
     initial_supply |-> a.initial_supply,
     state_owner |-> a.new_state_owner,
     fee_owner |-> SWAP_CONSTRAINTS.owner_key,
     fees |-> a.fees, swap_curve |-> a.swap_curve]

new_program_state_keeps_owner(program_state, a) ==
    [data_is_empty |-> FALSE, is_initialized |-> TRUE,
     initial_supply |-> a.initial_supply,
     state_owner |-> program_state.state_owner,
     fee_owner |-> a.fee_owner,
     fees |-> a.fees, swap_curve |-> a.swap_curve]

\* lines 365-373: the record packed on success
new_program_state(program_state, a) ==
    [data_is_empty |-> FALSE, is_initialized |-> TRUE,
     initial_supply |-> a.initial_supply,
     state_owner |-> a.new_state_owner,
     fee_owner |-> a.fee_owner,
     fees |-> a.fees, swap_curve |-> a.swap_curve]

process_update_state_allocates_first(st, a) ==
    LET allocated == IF st.data_is_empty THEN [st EXCEPT !.data_is_empty = FALSE] ELSE st
        program_state == IF allocated.is_initialized = FALSE THEN DefaultState ELSE allocated
        checked == update_checks(program_state, a)
    IN  IF check_state_account(a.state_key) # "Ok"
            THEN [result |-> check_state_account(a.state_key), state |-> st]
        ELSE IF ~a.is_signer
            THEN [result |-> "InvalidSigner", state |-> program_state]
        ELSE IF checked # "Ok"
            THEN [result |-> checked, state |-> program_state]
        ELSE [result |-> "Ok", state |-> new_program_state(program_state, a)]

process_update_state_compares_first(st, a) ==
    LET allocated == IF st.data_is_empty THEN [st EXCEPT !.data_is_empty = FALSE] ELSE st
        program_state == IF allocated.is_initialized = FALSE THEN DefaultState ELSE allocated
        checked == update_checks(program_state, a)
    IN  IF check_state_account(a.state_key) # "Ok"
            THEN [result |-> check_state_account(a.state_key), state |-> st]
        ELSE IF ~a.is_signer
            THEN [result |-> "InvalidSigner", state |-> st]
        ELSE IF allocated.state_owner # a.cur_state_owner
            THEN [result |-> "InvalidStateOwner", state |-> allocated]
        ELSE IF checked # "Ok"
            THEN [result |-> checked, state |-> program_state]
        ELSE [result |-> "Ok", state |-> new_program_state(program_state, a)]

process_update_state_writes_before_checks(st, a) ==
    LET allocated == IF st.data_is_empty THEN [st EXCEPT !.data_is_empty = FALSE] ELSE st
        program_state == IF allocated.is_initialized = FALSE THEN DefaultState ELSE allocated
        checked == update_checks(program_state, a)
    IN  IF check_state_account(a.state_key) # "Ok"
            THEN [result |-> check_state_account(a.state_key), state |-> st]
        ELSE IF ~a.is_signer
            THEN [result |-> "InvalidSigner", state |-> st]
        ELSE IF checked = "InvalidStateOwner"
            THEN [result |-> checked, state |-> program_state]
        ELSE IF checked # "Ok"
            THEN [result |-> checked,
                  state |-> [program_state EXCEPT !.state_owner = a.new_state_owner]]
        ELSE [result |-> "Ok", state |-> new_program_state(program_state, a)]

process_update_state(st, a) ==
    LET \* lines 313-329: an empty record is allocated, zero-filled
        allocated == IF st.data_is_empty THEN [st EXCEPT !.data_is_empty = FALSE] ELSE st
        \* lines 333-351: an uninitialized record is populated and packed
        program_state == IF allocated.is_initialized = FALSE THEN DefaultState ELSE allocated
        checked == update_checks(program_state, a)
    IN  IF check_state_account(a.state_key) # "Ok"
            THEN [result |-> check_state_account(a.state_key), state |-> st]
        ELSE IF ~a.is_signer
            THEN [result |-> "InvalidSigner", state |-> st]
        ELSE IF checked # "Ok"
            THEN [result |-> checked, state |-> program_state]
        ELSE [result |-> "Ok", state |-> new_program_state(program_state, a)]

UpdateArg(k, s, c, n, o, i, f, sc) ==
    [state_key |-> k, is_signer |-> s, cur_state_owner |-> c, new_state_owner |-> n,
     fee_owner |-> o, initial_supply |-> i, fees |-> f, swap_curve |-> sc]

\* Invocations that reach the record (the derived address, a signing caller)
\* with every combination of the remaining arguments, and invocations that do
\* not, with every caller and new owner and an otherwise acceptable request.
UpdateArgs ==
    {UpdateArg(AmmStateAddress, TRUE, c, n, o, i, fc[1], fc[2]) :
        c \in Keys, n \in Keys, o \in FeeOwnerArgs, i \in SupplyArgs, fc \in FeeCurveArgs}
        \cup {UpdateArg(k, s, c, n, OWNER_KEY, INITIAL_SWAP_POOL_AMOUNT,
                        Fee(21, 11, 10000), ConstantProductSwapCurve) :
                 k \in StateKeys, s \in BOOLEAN, c \in Keys, n \in Keys}

UpdateGlobalState ==
    \E a \in UpdateArgs :
        \E r \in {process_update_state(state, a)} :
            /\ state' = r.state
            /\ written' = (written \/ r.result = "Ok")
            /\ last' = [op |-> "UpdateGlobalState", result |-> r.result,
                        state_key |-> a.state_key, is_signer |-> a.is_signer,
                        cur_state_owner |-> a.cur_state_owner,
                        new_state_owner |-> a.new_state_owner,
                        fees |-> a.fees, swap_curve |-> a.swap_curve]
            /\ UNCHANGED <<pool, ledger, trades, call>>

(***************************************************************************)
(* The ledger: token accounts and mints of the token program, seen through *)
(* unpack_token_account and unpack_mint.  What an account is (its owning   *)
(* program, owner, mint, delegate, state, close authority; a mint's        *)
(* authority, decimals, freeze authority) is fixed per key; amounts and    *)
(* supplies are state.                                                     *)
(***************************************************************************)
TokenProgram == "TokenProgram"

ProgramId == "SwapProgram"

\* Pubkey::create_program_address over the pool key and the nonce: no
\* address exists for some nonces.
NoAddressNonce == 254

Nonces == {253, 254, 255}

create_program_address(swap_key, nonce) ==
    IF nonce = NoAddressNonce THEN 0 ELSE 1000 + nonce

authority_id(swap_key, nonce) ==
    IF create_program_address(swap_key, nonce) = 0
    THEN [result |-> "InvalidProgramAddress", key |-> 0]
    ELSE [result |-> "Ok", key |-> create_program_address(swap_key, nonce)]

\* The nonce of the pool authority that owns the pool-side accounts below.
PoolNonce == 255

PoolAuthority == create_program_address("swap", PoolNonce)

\* The mint of side A is an ordinary mint, the mint of side B the native
\* wrapped asset.
WSOL_MINT_ADDRESS == "So11111111111111111111111111111111111111112"

Sides == {"A", "B"}

\* Token accounts, named flavour \o side.  "pool" is a well-formed pool-side
\* account of mint A or B; every other flavour departs from it in one respect.
TokenFlavours ==
    {"pool", "pool2", "user", "fee", "deleg", "frozen", "close", "empty", "foreign"}

TokenNames ==
    {<<f \o sd, f, sd>> : f \in TokenFlavours, sd \in Sides}
        \cup {<<"userLP", "user", "LP">>, <<"authLP", "auth", "LP">>}

TokenKeys == {n[1] : n \in TokenNames}

MintKeys == {"lpMint", "lpMintDecimals", "lpMintFreeze", "lpMintUser", "lpMintNone", "lpMintMinted"}

LP_MINT_DECIMALS == 8

TokenTable ==
    [k \in TokenKeys |->
        LET n == CHOOSE n \in TokenNames : n[1] = k
        IN  [program |-> IF n[2] = "foreign" THEN "OtherProgram" ELSE TokenProgram,
             owner |-> IF n[2] = "user" THEN UserKey
                       ELSE IF n[2] = "fee" THEN OWNER_KEY ELSE PoolAuthority,
             mint |-> IF n[3] = "LP" THEN "lpMint"
                      ELSE IF n[3] = "A" THEN "mintA" ELSE WSOL_MINT_ADDRESS,
             delegate |-> (n[2] = "deleg"),
             is_frozen |-> (n[2] = "frozen"),
             close_authority |-> (n[2] = "close"),
             initial_amount |-> IF n[2] = "empty" THEN 0
                                ELSE IF n[3] = "A" THEN 400 ELSE 600]]

\* A key that holds no token account unpacks to nothing that is read.
TokenInfo(k) == IF k \in TokenKeys THEN TokenTable[k] ELSE TokenTable["userLP"]

MintInfo(m) ==
    [program |-> TokenProgram,
     mint_authority |-> IF m = "lpMintUser" THEN UserKey
                        ELSE IF m = "lpMintNone" THEN 0 ELSE PoolAuthority,
     decimals |-> IF m = "lpMintDecimals" THEN 6 ELSE LP_MINT_DECIMALS,
     freeze_authority |-> (m = "lpMintFreeze")]

InitialAmount(k) == TokenTable[k].initial_amount

InitialSupply(m) == IF m = "lpMintMinted" THEN 7 ELSE 0

\* ProgramState::unpack_from_slice of the buffer behind state_info, as the
\* pool handlers read it: a buffer that was never allocated reads as the
\* record that is not initialized.
unpack_from_slice(st) == IF st.data_is_empty THEN EmptyState ELSE st

\* unpack_token_account, unpack_mint: the account must belong to the token
\* program and hold a token account (a mint).
unpack_token_account(k, token_program_id) ==
    IF k \in MintKeys
    THEN IF MintInfo(k).program # token_program_id
         THEN "IncorrectTokenProgramId" ELSE "ExpectedAccount"
    ELSE IF TokenInfo(k).program # token_program_id
         THEN "IncorrectTokenProgramId" ELSE "Ok"

unpack_mint(m, token_program_id) ==
    IF m \in TokenKeys
    THEN IF TokenInfo(m).program # token_program_id
         THEN "IncorrectTokenProgramId" ELSE "ExpectedMint"
    ELSE IF MintInfo(m).program # token_program_id
         THEN "IncorrectTokenProgramId" ELSE "Ok"

\* validate_supply of the constant-product calculator: both reserves are
\* positive.
validate_supply(token_a_amount, token_b_amount) ==
    IF token_a_amount = 0 \/ token_b_amount = 0 THEN "EmptySupply" ELSE "Ok"

(***************************************************************************)
(* The Pool record (SwapVersion::SwapV1) behind swap_info.                 *)
(***************************************************************************)
EmptyPool ==
    [is_initialized |-> FALSE, nonce |-> 0, amm_id |-> "", dex_program_id |-> "",
     market_id |-> "", token_program_id |-> "", token_a |-> "",
     token_b |-> "", pool_mint |-> "", token_a_mint |-> "", token_b_mint |-> ""]

\* The owner of the market account.
MarketOwner(market) == "Dex"

(***************************************************************************)
(* processor.rs: Processor::process_initialize                             *)
(***************************************************************************)
\* The accounts whose amounts the model follows: those of the pool authority.
\* The amounts of the other accounts are not read by the handlers that
\* succeed; their holders are taken to have what a transfer or burn needs.
PoolSideKeys == {k \in TokenKeys : TokenTable[k].owner = PoolAuthority}

TokenAmount(lg, k) ==
    IF k \in PoolSideKeys THEN lg.amount[k]
    ELSE IF k \in TokenKeys THEN InitialAmount(k) ELSE 0

MintSupply(lg, m) == IF m \in MintKeys THEN lg.supply[m] ELSE 0

initialize_account_checks_no_delegate(st, lg, a) ==
    LET token_a == TokenInfo(a.token_a)
        token_b == TokenInfo(a.token_b)
        destination == TokenInfo(a.destination)
        pool_mint == MintInfo(a.pool_mint)
    IN  IF unpack_token_account(a.token_a, a.token_program) # "Ok"
            THEN unpack_token_account(a.token_a, a.token_program)
        ELSE IF unpack_token_account(a.token_b, a.token_program) # "Ok"
            THEN unpack_token_account(a.token_b, a.token_program)
        ELSE IF unpack_token_account(a.destination, a.token_program) # "Ok"
            THEN unpack_token_account(a.destination, a.token_program)
        ELSE IF unpack_mint(a.pool_mint, a.token_program) # "Ok"
            THEN unpack_mint(a.pool_mint, a.token_program)
        ELSE IF a.authority # token_a.owner THEN "InvalidOwner"
        ELSE IF a.authority # token_b.owner THEN "InvalidOwner"
        ELSE IF a.authority = destination.owner THEN "InvalidOutputOwner"
        ELSE IF a.authority # pool_mint.mint_authority THEN "InvalidOwner"
        ELSE IF token_a.mint = token_b.mint THEN "RepeatedMint"
        ELSE IF validate_supply(TokenAmount(lg, a.token_a), TokenAmount(lg, a.token_b)) # "Ok"
            THEN validate_supply(TokenAmount(lg, a.token_a), TokenAmount(lg, a.token_b))
        ELSE IF token_a.is_frozen THEN "InvalidFreezeAuthority"
        ELSE IF token_b.is_frozen THEN "InvalidFreezeAuthority"
        ELSE IF token_a.close_authority THEN "InvalidCloseAuthority"
        ELSE IF token_b.close_authority THEN "InvalidCloseAuthority"
        ELSE IF pool_mint.decimals # LP_MINT_DECIMALS THEN "InvalidDecimals"
        ELSE IF MintSupply(lg, a.pool_mint) # 0 THEN "InvalidSupply"
        ELSE IF pool_mint.freeze_authority THEN "InvalidFreezeAuthority"
        ELSE IF MarketOwner(a.market) # a.dex_program THEN "IncorrectMarketOwnerAccount"
        ELSE "Ok"

\* lines 425-481: the checks on the token accounts, the mint and the market
initialize_account_checks_any_supply(st, lg, a) ==
    LET token_a == TokenInfo(a.token_a)
        token_b == TokenInfo(a.token_b)
        destination == TokenInfo(a.destination)
        pool_mint == MintInfo(a.pool_mint)
    IN  IF unpack_token_account(a.token_a, a.token_program) # "Ok"
            THEN unpack_token_account(a.token_a, a.token_program)
        ELSE IF unpack_token_account(a.token_b, a.token_program) # "Ok"
            THEN unpack_token_account(a.token_b, a.token_program)
        ELSE IF unpack_token_account(a.destination, a.token_program) # "Ok"
            THEN unpack_token_account(a.destination, a.token_program)
        ELSE IF unpack_mint(a.pool_mint, a.token_program) # "Ok"
            THEN unpack_mint(a.pool_mint, a.token_program)
        ELSE IF a.authority # token_a.owner THEN "InvalidOwner"
        ELSE IF a.authority # token_b.owner THEN "InvalidOwner"
        ELSE IF a.authority = destination.owner THEN "InvalidOutputOwner"
        ELSE IF a.authority # pool_mint.mint_authority THEN "InvalidOwner"
        ELSE IF token_a.mint = token_b.mint THEN "RepeatedMint"
        ELSE IF token_a.delegate THEN "InvalidDelegate"
        ELSE IF token_b.delegate THEN "InvalidDelegate"
        ELSE IF token_a.is_frozen THEN "InvalidFreezeAuthority"
        ELSE IF token_b.is_frozen THEN "InvalidFreezeAuthority"
        ELSE IF token_a.close_authority THEN "InvalidCloseAuthority"
        ELSE IF token_b.close_authority THEN "InvalidCloseAuthority"
        ELSE IF pool_mint.decimals # LP_MINT_DECIMALS THEN "InvalidDecimals"
        ELSE IF MintSupply(lg, a.pool_mint) # 0 THEN "InvalidSupply"
        ELSE IF pool_mint.freeze_authority THEN "InvalidFreezeAuthority"
        ELSE IF MarketOwner(a.market) # a.dex_program THEN "IncorrectMarketOwnerAccount"
        ELSE "Ok"

initialize_account_checks(st, lg, a) ==
    LET token_a == TokenInfo(a.token_a)
        token_b == TokenInfo(a.token_b)
        destination == TokenInfo(a.destination)
        pool_mint == MintInfo(a.pool_mint)
    IN  IF unpack_token_account(a.token_a, a.token_program) # "Ok"
            THEN unpack_token_account(a.token_a, a.token_program)
        ELSE IF unpack_token_account(a.token_b, a.token_program) # "Ok"
            THEN unpack_token_account(a.token_b, a.token_program)
        ELSE IF unpack_token_account(a.destination, a.token_program) # "Ok"
            THEN unpack_token_account(a.destination, a.token_program)
        ELSE IF unpack_mint(a.pool_mint, a.token_program) # "Ok"
            THEN unpack_mint(a.pool_mint, a.token_program)
        ELSE IF a.authority # token_a.owner THEN "InvalidOwner"
        ELSE IF a.authority # token_b.owner THEN "InvalidOwner"
        ELSE IF a.authority = destination.owner THEN "InvalidOutputOwner"
        ELSE IF a.authority # pool_mint.mint_authority THEN "InvalidOwner"
        ELSE IF token_a.mint = token_b.mint THEN "RepeatedMint"
        ELSE IF validate_supply(TokenAmount(lg, a.token_a), TokenAmount(lg, a.token_b)) # "Ok"
            THEN validate_supply(TokenAmount(lg, a.token_a), TokenAmount(lg, a.token_b))
        ELSE IF token_a.delegate THEN "InvalidDelegate"
        ELSE IF token_b.delegate THEN "InvalidDelegate"
        ELSE IF token_a.is_frozen THEN "InvalidFreezeAuthority"
        ELSE IF token_b.is_frozen THEN "InvalidFreezeAuthority"
        ELSE IF token_a.close_authority THEN "InvalidCloseAuthority"
        ELSE IF token_b.close_authority THEN "InvalidCloseAuthority"
        ELSE IF pool_mint.decimals # LP_MINT_DECIMALS THEN "InvalidDecimals"
        ELSE IF MintSupply(lg, a.pool_mint) # 0 THEN "InvalidSupply"
        ELSE IF pool_mint.freeze_authority THEN "InvalidFreezeAuthority"
        ELSE IF MarketOwner(a.market) # a.dex_program THEN "IncorrectMarketOwnerAccount"
        ELSE "Ok"

initialize_state_checks_reinitializes(st, pl, a) ==
    IF authority_id(a.swap, a.nonce).result # "Ok"
        THEN authority_id(a.swap, a.nonce).result
    ELSE IF a.authority # authority_id(a.swap, a.nonce).key THEN "InvalidProgramAddress"
    ELSE IF check_state_account(a.state_key) # "Ok" THEN check_state_account(a.state_key)
    ELSE IF unpack_from_slice(st).is_initialized = FALSE
            THEN "NotInitializedState"
    ELSE IF ~a.is_signer THEN "InvalidSigner"
    ELSE IF a.cur_state_owner # st.state_owner THEN "InvalidOwner"
    ELSE "Ok"

initialize_state_checks_any_signer(st, pl, a) ==
    IF pl.is_initialized THEN "AlreadyInUse"
    ELSE IF authority_id(a.swap, a.nonce).result # "Ok"
        THEN authority_id(a.swap, a.nonce).result
    ELSE IF a.authority # authority_id(a.swap, a.nonce).key THEN "InvalidProgramAddress"
    ELSE IF check_state_account(a.state_key) # "Ok" THEN check_state_account(a.state_key)
    ELSE IF unpack_from_slice(st).is_initialized = FALSE
            THEN "NotInitializedState"
    ELSE IF ~a.is_signer THEN "InvalidSigner"
    ELSE "Ok"

initialize_state_checks_without_state(st, pl, a) ==
    IF pl.is_initialized THEN "AlreadyInUse"
    ELSE IF authority_id(a.swap, a.nonce).result # "Ok"
        THEN authority_id(a.swap, a.nonce).result
    ELSE IF a.authority # authority_id(a.swap, a.nonce).key THEN "InvalidProgramAddress"
    ELSE IF check_state_account(a.state_key) # "Ok" THEN check_state_account(a.state_key)
    ELSE IF ~a.is_signer THEN "InvalidSigner"
    ELSE IF a.cur_state_owner # st.state_owner /\ st.is_initialized THEN "InvalidOwner"
    ELSE "Ok"

\* lines 401-423: the checks on the pool record, the authority, GlobalState
\* and the caller
initialize_state_checks(st, pl, a) ==
    IF pl.is_initialized THEN "AlreadyInUse"
    ELSE IF authority_id(a.swap, a.nonce).result # "Ok"
        THEN authority_id(a.swap, a.nonce).result
    ELSE IF a.authority # authority_id(a.swap, a.nonce).key THEN "InvalidProgramAddress"
    ELSE IF check_state_account(a.state_key) # "Ok" THEN check_state_account(a.state_key)
    ELSE IF unpack_from_slice(st).is_initialized = FALSE
            THEN "NotInitializedState"
    ELSE IF ~a.is_signer THEN "InvalidSigner"
    ELSE IF a.cur_state_owner # st.state_owner THEN "InvalidOwner"
    ELSE "Ok"

\* The token program's MintTo, Transfer and Burn as they change the ledger,
\* and the record of an instruction issued to it (token_mint_to,
\* token_transfer, token_burn) or to the system program.
ledger_mint_to(lg, mint, destination, amount) ==
    [amount |-> [k \in PoolSideKeys |->
                    IF k = destination THEN lg.amount[k] + amount ELSE lg.amount[k]],
     supply |-> [m \in MintKeys |->
                    IF m = mint THEN lg.supply[m] + amount ELSE lg.supply[m]]]

ledger_transfer(lg, source, destination, amount) ==
    [amount |-> [k \in PoolSideKeys |->
                    IF k = source /\ k = destination THEN lg.amount[k]
                    ELSE IF k = source THEN lg.amount[k] - amount
                    ELSE IF k = destination THEN lg.amount[k] + amount
                    ELSE lg.amount[k]],
     supply |-> lg.supply]

ledger_burn(lg, burn_account, mint, amount) ==
    [amount |-> [k \in PoolSideKeys |->
                    IF k = burn_account THEN lg.amount[k] - amount ELSE lg.amount[k]],
     supply |-> [m \in MintKeys |->
                    IF m = mint THEN lg.supply[m] - amount ELSE lg.supply[m]]]

Mutation(kind, from, to, authority, amount) ==
    [kind |-> kind, from |-> from, to |-> to, authority |-> authority, amount |-> amount]

\* lines 497-509: the record packed on success
new_pool(a) ==
    [is_initialized |-> TRUE, nonce |-> a.nonce, amm_id |-> a.amm_id,
     dex_program_id |-> a.dex_program, market_id |-> a.market,
     token_program_id |-> a.token_program, token_a |-> a.token_a,
     token_b |-> a.token_b, pool_mint |-> a.pool_mint,
     token_a_mint |-> TokenInfo(a.token_a).mint,
     token_b_mint |-> TokenInfo(a.token_b).mint]

process_initialize_mints_default(st, pl, lg, a) ==
    LET state_checks == initialize_state_checks(st, pl, a)
        account_checks == initialize_account_checks(st, lg, a)
        initial_amount == INITIAL_SWAP_POOL_AMOUNT
    IN  IF state_checks # "Ok"
            THEN [result |-> state_checks, pool |-> pl, ledger |-> lg, issued |-> <<>>]
        ELSE IF account_checks # "Ok"
            THEN [result |-> account_checks, pool |-> pl, ledger |-> lg, issued |-> <<>>]
        ELSE [result |-> "Ok",
              pool |-> new_pool(a),
              ledger |-> ledger_mint_to(lg, a.pool_mint, a.destination, initial_amount),
              issued |-> <<Mutation("mint_to", a.pool_mint, a.destination,
                                     a.authority, initial_amount)>>]

process_initialize(st, pl, lg, a) ==
    LET state_checks == initialize_state_checks(st, pl, a)
        account_checks == initialize_account_checks(st, lg, a)
        initial_amount == st.initial_supply
    IN  IF state_checks # "Ok"
            THEN [result |-> state_checks, pool |-> pl, ledger |-> lg, issued |-> <<>>]
        ELSE IF account_checks # "Ok"
            THEN [result |-> account_checks, pool |-> pl, ledger |-> lg, issued |-> <<>>]
        ELSE [result |-> "Ok",
              pool |-> new_pool(a),
              ledger |-> ledger_mint_to(lg, a.pool_mint, a.destination, initial_amount),
              issued |-> <<Mutation("mint_to", a.pool_mint, a.destination,
                                     a.authority, initial_amount)>>]

\* A request that meets every precondition but for the caller, and the
\* requests that depart from it in one account or argument.
GoodInitialize ==
    [swap |-> "swap", authority |-> PoolAuthority, nonce |-> PoolNonce,
     state_key |-> AmmStateAddress, amm_id |-> "Amm",
     token_a |-> "poolA", token_b |-> "poolB",
     pool_mint |-> "lpMint", destination |-> "userLP",
     market |-> "Market", token_program |-> TokenProgram, dex_program |-> "Dex"]

InitializeAccounts ==
    {GoodInitialize}
        \cup {[GoodInitialize EXCEPT !.authority = k] : k \in {UserKey, 1000 + 253}}
        \cup {[GoodInitialize EXCEPT !.nonce = n] : n \in Nonces}
        \cup {[GoodInitialize EXCEPT !.nonce = 253, !.authority = 1000 + 253]}
        \cup {[GoodInitialize EXCEPT !.state_key = k] : k \in StateKeys}
        \cup {[GoodInitialize EXCEPT !.token_a = f \o "A"] : f \in TokenFlavours}
        \cup {[GoodInitialize EXCEPT !.token_b = f \o "B"] : f \in TokenFlavours}
        \cup {[GoodInitialize EXCEPT !.token_a = k] : k \in {"poolB", "lpMint"}}
        \cup {[GoodInitialize EXCEPT !.token_b = k] : k \in {"poolA", "lpMint"}}
        \cup {[GoodInitialize EXCEPT !.token_a = "poolB", !.token_b = "poolA"]}
        \cup {[GoodInitialize EXCEPT !.pool_mint = m] : m \in MintKeys \cup {"userLP"}}
        \cup {[GoodInitialize EXCEPT !.destination = k] :
                 k \in {"authLP", "foreignA", "lpMint"}}
        \cup {[GoodInitialize EXCEPT !.token_program = "OtherProgram"]}
        \cup {[GoodInitialize EXCEPT !.dex_program = "OtherDex"]}

\* Every account list with a signing caller, and the well-formed list with
\* a caller that does not sign.
InitializeArgs ==
    {acc @@ [is_signer |-> TRUE, cur_state_owner |-> c] :
        acc \in InitializeAccounts, c \in Keys}
        \cup {GoodInitialize @@ [is_signer |-> FALSE, cur_state_owner |-> c] : c \in Keys}

WellFormed(a) ==
    \A f \in DOMAIN GoodInitialize : a[f] = GoodInitialize[f]

InitializePool ==
    \E a \in InitializeArgs :
        \E r \in {process_initialize(state, pool, ledger, a)} :
            /\ pool' = r.pool
            /\ ledger' = r.ledger
            /\ last' = [op |-> "InitializePool", result |-> r.result,
                        is_signer |-> a.is_signer, cur_state_owner |-> a.cur_state_owner,
                        well_formed |-> WellFormed(a), issued |-> r.issued]
            /\ UNCHANGED <<state, written, trades, call>>

(***************************************************************************)
(* The curve (SwapCurve and its constant-product calculator).              *)
(***************************************************************************)
NoTrade ==
    [none |-> TRUE, source_amount_swapped |-> 0, destination_amount_swapped |-> 0,
     owner_fee |-> 0]

CeilDiv(x, y) == (x + y - 1) \div y

Min(x, y) == IF x < y THEN x ELSE y

\* swap: the fee is taken from the amount that comes in, the trade is
\* computed on the rest; no trade when a computed amount is zero.
\* floor(a * b / c) for a, b >= 0 and c > 0, as the curve computes it in 128
\* bits: the product is formed by doubling, so that no intermediate value
\* is larger than 2 * c or than the result.
FloorMulDiv(a, b, c) ==
    LET RECURSIVE QuotRem(_)
        QuotRem(n) ==
            IF n = 0 THEN [q |-> 0, r |-> 0]
            ELSE LET h == QuotRem(n \div 2)
                     d == [q |-> 2 * h.q + ((2 * h.r) \div c), r |-> (2 * h.r) % c]
                 IN  IF n % 2 = 0 THEN d
                     ELSE [q |-> d.q + (a \div c) + ((d.r + (a % c)) \div c),
                           r |-> (d.r + (a % c)) % c]
    IN  IF a <= 46340 /\ b <= 46340 THEN (a * b) \div c ELSE QuotRem(b).q

swap(source_amount, swap_source_amount, swap_destination_amount, trade_direction, fees) ==
    LET owner_fee == (source_amount * fees.fixed_fee_numerator) \div fees.fee_denominator
        net == source_amount - owner_fee
        new_source == swap_source_amount + net
        out == swap_destination_amount
                   - FloorMulDiv(swap_source_amount, swap_destination_amount, new_source)
    IN  IF fees.fee_denominator = 0 THEN NoTrade
        ELSE IF net = 0 \/ new_source = 0 THEN NoTrade
        ELSE IF out = 0 THEN NoTrade
        ELSE [none |-> FALSE, source_amount_swapped |-> source_amount,
              destination_amount_swapped |-> out, owner_fee |-> owner_fee]

\* pool_tokens_to_trading_tokens: the share of each reserve that
\* pool_tokens of pool_token_supply stands for.
pool_tokens_to_trading_tokens(pool_tokens, pool_token_supply, swap_token_a_amount, swap_token_b_amount, round_direction) ==
    IF pool_token_supply = 0
    THEN [none |-> TRUE, token_a_amount |-> 0, token_b_amount |-> 0]
    ELSE IF round_direction = "Ceiling"
    THEN [none |-> FALSE,
          token_a_amount |-> CeilDiv(pool_tokens * swap_token_a_amount, pool_token_supply),
          token_b_amount |-> CeilDiv(pool_tokens * swap_token_b_amount, pool_token_supply)]
    ELSE [none |-> FALSE,
          token_a_amount |-> (pool_tokens * swap_token_a_amount) \div pool_token_supply,
          token_b_amount |-> (pool_tokens * swap_token_b_amount) \div pool_token_supply]

\* deposit_single_token_type: the liquidity tokens for a deposit of one
\* asset, net of the fee on the half that is traded; a rational lower bound
\* of supply * (sqrt(1 + net / reserve) - 1).
deposit_single_token_type(source_amount, swap_token_a_amount, swap_token_b_amount, pool_supply, trade_direction, fees) ==
    LET reserve == IF trade_direction = "AtoB" THEN swap_token_a_amount
                   ELSE swap_token_b_amount
        fee == ((source_amount \div 2) * fees.fixed_fee_numerator) \div fees.fee_denominator
        net == source_amount - fee
    IN  IF fees.fee_denominator = 0 \/ 2 * reserve + net = 0
        THEN [none |-> TRUE, amount |-> 0]
        ELSE [none |-> FALSE, amount |-> (pool_supply * net) \div (2 * reserve + net)]

\* withdraw_single_token_type_exact_out: the liquidity tokens to burn for a
\* withdrawal of one asset, with the fee on the half that is traded; a
\* rational upper bound of supply * (1 - sqrt(1 - gross / reserve)).
withdraw_single_token_type_exact_out(source_amount, swap_token_a_amount, swap_token_b_amount, pool_supply, trade_direction, fees) ==
    LET reserve == IF trade_direction = "AtoB" THEN swap_token_a_amount
                   ELSE swap_token_b_amount
        fee == CeilDiv(CeilDiv(source_amount, 2) * fees.fixed_fee_numerator,
                       fees.fee_denominator)
        gross == source_amount + fee
    IN  IF fees.fee_denominator = 0 \/ gross > reserve \/ reserve = 0
        THEN [none |-> TRUE, amount |-> 0]
        ELSE [none |-> FALSE,
              amount |-> CeilDiv(pool_supply * gross, 2 * reserve - gross)]

\* The constant-product calculator allows deposits.
allows_deposits(calculator) == TRUE

\* to_u64: a 128-bit amount fits 64 bits.  U64_MAX is u64::MAX at the width
\* of the integers of the model.
U64_MAX == 2147483647

to_u64(val) == val <= U64_MAX

(***************************************************************************)
(* processor.rs: the trading and liquidity handlers                        *)
(***************************************************************************)
MIN_LP_SUPPLY == 100000

\* SwapVersion::unpack of the Pool record behind swap_info.
SwapVersion_unpack(pl) == IF pl.is_initialized THEN "Ok" ELSE "UninitializedAccount"

\* An Option<&AccountInfo> that is None.
NoAccount == "none"

check_accounts_any_authority(pl, a, user_token_a, user_token_b) ==
    IF a.swap_owner # ProgramId THEN "IncorrectProgramId"
    ELSE IF a.token_a # pl.token_a THEN "IncorrectSwapAccount"
    ELSE IF a.token_b # pl.token_b THEN "IncorrectSwapAccount"
    ELSE IF a.pool_mint # pl.pool_mint THEN "IncorrectPoolMint"
    ELSE IF a.token_program # pl.token_program_id THEN "IncorrectTokenProgramId"
    ELSE IF user_token_a # NoAccount /\ a.token_a = user_token_a THEN "InvalidInput"
    ELSE IF user_token_b # NoAccount /\ a.token_b = user_token_b THEN "InvalidInput"
    ELSE "Ok"

check_accounts(pl, a, user_token_a, user_token_b) ==
    IF a.swap_owner # ProgramId THEN "IncorrectProgramId"
    ELSE IF authority_id(a.swap, pl.nonce).result # "Ok"
        THEN authority_id(a.swap, pl.nonce).result
    ELSE IF a.authority # authority_id(a.swap, pl.nonce).key THEN "InvalidProgramAddress"
    ELSE IF a.token_a # pl.token_a THEN "IncorrectSwapAccount"
    ELSE IF a.token_b # pl.token_b THEN "IncorrectSwapAccount"
    ELSE IF a.pool_mint # pl.pool_mint THEN "IncorrectPoolMint"
    ELSE IF a.token_program # pl.token_program_id THEN "IncorrectTokenProgramId"
    ELSE IF user_token_a # NoAccount /\ a.token_a = user_token_a THEN "InvalidInput"
    ELSE IF user_token_b # NoAccount /\ a.token_b = user_token_b THEN "InvalidInput"
    ELSE "Ok"

\* lines 539-608: the checks of process_swap before the curve is consulted
swap_checks_any_fee_wallet(st, pl, a) ==
    LET source_account == TokenInfo(a.swap_source)
        fee_account == TokenInfo(a.fixed_fee_account)
    IN  IF a.swap_owner # ProgramId THEN "IncorrectProgramId"
        ELSE IF SwapVersion_unpack(pl) # "Ok" THEN SwapVersion_unpack(pl)
        ELSE IF authority_id(a.swap, pl.nonce).result # "Ok"
            THEN authority_id(a.swap, pl.nonce).result
        ELSE IF a.authority # authority_id(a.swap, pl.nonce).key
            THEN "InvalidProgramAddress"
        ELSE IF check_state_account(a.state_key) # "Ok"
            THEN check_state_account(a.state_key)
        ELSE IF unpack_from_slice(st).is_initialized = FALSE
            THEN "NotInitializedState"
        ELSE IF ~(a.swap_source = pl.token_a \/ a.swap_source = pl.token_b)
            THEN "IncorrectSwapAccount"
        ELSE IF ~(a.swap_destination = pl.token_a \/ a.swap_destination = pl.token_b)
            THEN "IncorrectSwapAccount"
        ELSE IF a.swap_source = a.swap_destination THEN "InvalidInput"
        ELSE IF a.swap_source = a.source THEN "InvalidInput"
        ELSE IF a.swap_destination = a.destination THEN "InvalidInput"
        ELSE IF a.pool_mint # pl.pool_mint THEN "IncorrectPoolMint"
        ELSE IF a.token_program # pl.token_program_id THEN "IncorrectTokenProgramId"
        ELSE IF unpack_token_account(a.swap_source, pl.token_program_id) # "Ok"
            THEN unpack_token_account(a.swap_source, pl.token_program_id)
        ELSE IF unpack_token_account(a.swap_destination, pl.token_program_id) # "Ok"
            THEN unpack_token_account(a.swap_destination, pl.token_program_id)
        ELSE IF WSOL_MINT_ADDRESS # source_account.mint
                  /\ unpack_token_account(a.fixed_fee_account, pl.token_program_id) # "Ok"
            THEN unpack_token_account(a.fixed_fee_account, pl.token_program_id)
        ELSE IF WSOL_MINT_ADDRESS # source_account.mint
                  /\ (st.fee_owner # fee_account.owner
                        \/ source_account.mint # fee_account.mint)
            THEN "IncorrectFeeAccount"
        ELSE "Ok"

swap_checks_any_pool_account(st, pl, a) ==
    LET source_account == TokenInfo(a.swap_source)
        fee_account == TokenInfo(a.fixed_fee_account)
    IN  IF a.swap_owner # ProgramId THEN "IncorrectProgramId"
        ELSE IF SwapVersion_unpack(pl) # "Ok" THEN SwapVersion_unpack(pl)
        ELSE IF authority_id(a.swap, pl.nonce).result # "Ok"
            THEN authority_id(a.swap, pl.nonce).result
        ELSE IF a.authority # authority_id(a.swap, pl.nonce).key
            THEN "InvalidProgramAddress"
        ELSE IF check_state_account(a.state_key) # "Ok"
            THEN check_state_account(a.state_key)
        ELSE IF unpack_from_slice(st).is_initialized = FALSE
            THEN "NotInitializedState"
        ELSE IF a.swap_source = a.swap_destination THEN "InvalidInput"
        ELSE IF a.swap_source = a.source THEN "InvalidInput"
        ELSE IF a.swap_destination = a.destination THEN "InvalidInput"
        ELSE IF a.pool_mint # pl.pool_mint THEN "IncorrectPoolMint"
        ELSE IF a.token_program # pl.token_program_id THEN "IncorrectTokenProgramId"
        ELSE IF unpack_token_account(a.swap_source, pl.token_program_id) # "Ok"
            THEN unpack_token_account(a.swap_source, pl.token_program_id)
        ELSE IF unpack_token_account(a.swap_destination, pl.token_program_id) # "Ok"
            THEN unpack_token_account(a.swap_destination, pl.token_program_id)
        ELSE IF st.fee_owner # a.fixed_fee_wallet THEN "InvalidOwner"
        ELSE IF WSOL_MINT_ADDRESS # source_account.mint
                  /\ unpack_token_account(a.fixed_fee_account, pl.token_program_id) # "Ok"
            THEN unpack_token_account(a.fixed_fee_account, pl.token_program_id)
        ELSE IF WSOL_MINT_ADDRESS # source_account.mint
                  /\ (st.fee_owner # fee_account.owner
                        \/ source_account.mint # fee_account.mint)
            THEN "IncorrectFeeAccount"
        ELSE "Ok"

swap_checks(st, pl, a) ==
    LET source_account == TokenInfo(a.swap_source)
        fee_account == TokenInfo(a.fixed_fee_account)
    IN  IF a.swap_owner # ProgramId THEN "IncorrectProgramId"
        ELSE IF SwapVersion_unpack(pl) # "Ok" THEN SwapVersion_unpack(pl)
        ELSE IF authority_id(a.swap, pl.nonce).result # "Ok"
            THEN authority_id(a.swap, pl.nonce).result
        ELSE IF a.authority # authority_id(a.swap, pl.nonce).key
            THEN "InvalidProgramAddress"
        ELSE IF check_state_account(a.state_key) # "Ok"
            THEN check_state_account(a.state_key)
        ELSE IF unpack_from_slice(st).is_initialized = FALSE
            THEN "NotInitializedState"
        ELSE IF ~(a.swap_source = pl.token_a \/ a.swap_source = pl.token_b)
            THEN "IncorrectSwapAccount"
        ELSE IF ~(a.swap_destination = pl.token_a \/ a.swap_destination = pl.token_b)
            THEN "IncorrectSwapAccount"
        ELSE IF a.swap_source = a.swap_destination THEN "InvalidInput"
        ELSE IF a.swap_source = a.source THEN "InvalidInput"
        ELSE IF a.swap_destination = a.destination THEN "InvalidInput"
        ELSE IF a.pool_mint # pl.pool_mint THEN "IncorrectPoolMint"
        ELSE IF a.token_program # pl.token_program_id THEN "IncorrectTokenProgramId"
        ELSE IF unpack_token_account(a.swap_source, pl.token_program_id) # "Ok"
            THEN unpack_token_account(a.swap_source, pl.token_program_id)
        ELSE IF unpack_token_account(a.swap_destination, pl.token_program_id) # "Ok"
            THEN unpack_token_account(a.swap_destination, pl.token_program_id)
        ELSE IF st.fee_owner # a.fixed_fee_wallet THEN "InvalidOwner"
        ELSE IF WSOL_MINT_ADDRESS # source_account.mint
                  /\ unpack_token_account(a.fixed_fee_account, pl.token_program_id) # "Ok"
            THEN unpack_token_account(a.fixed_fee_account, pl.token_program_id)
        ELSE IF WSOL_MINT_ADDRESS # source_account.mint
                  /\ (st.fee_owner # fee_account.owner
                        \/ source_account.mint # fee_account.mint)
            THEN "IncorrectFeeAccount"
        ELSE "Ok"

process_swap_initial_fees(st, pl, lg, a) ==
    LET checks == swap_checks(st, pl, a)
        trade_direction == IF a.swap_source = pl.token_a THEN "AtoB" ELSE "BtoA"
        source_account == TokenInfo(a.swap_source)
        result == swap(a.amount_in, TokenAmount(lg, a.swap_source),
                       TokenAmount(lg, a.swap_destination), trade_direction,
                       DefaultState.fees)
        debit == result.source_amount_swapped - result.owner_fee
        debited == ledger_transfer(lg, a.source, a.swap_source, debit)
        fee_paid == IF source_account.mint = WSOL_MINT_ADDRESS THEN debited
                    ELSE ledger_transfer(debited, a.source, a.fixed_fee_account,
                                         result.owner_fee)
        debit_mutation == Mutation("transfer", a.source, a.swap_source,
                                   a.user_transfer_authority, debit)
        fee_mutation ==
            IF source_account.mint = WSOL_MINT_ADDRESS
            THEN Mutation("system_transfer", a.user_transfer_authority,
                          a.fixed_fee_wallet, a.user_transfer_authority, result.owner_fee)
            ELSE Mutation("transfer", a.source, a.fixed_fee_account,
                          a.user_transfer_authority, result.owner_fee)
    IN  IF checks # "Ok" THEN [result |-> checks, ledger |-> lg, issued |-> <<>>]
        ELSE IF result.none
            THEN [result |-> "ZeroTradingTokens", ledger |-> lg, issued |-> <<>>]
        ELSE IF result.destination_amount_swapped < a.minimum_amount_out
            THEN [result |-> "ExceededSlippage", ledger |-> lg, issued |-> <<>>]
        ELSE IF ~to_u64(debit)
            THEN [result |-> "ConversionFailure", ledger |-> lg, issued |-> <<>>]
        \* lines 654, 669, 681: the fee and the payout are converted after
        \* the debit, the payout after the fee payment
        ELSE IF ~to_u64(result.owner_fee)
            THEN [result |-> "ConversionFailure", ledger |-> debited,
                  issued |-> <<debit_mutation>>]
        ELSE IF ~to_u64(result.destination_amount_swapped)
            THEN [result |-> "ConversionFailure", ledger |-> fee_paid,
                  issued |-> <<debit_mutation, fee_mutation>>]
        ELSE [result |-> "Ok",
              ledger |-> ledger_transfer(fee_paid, a.swap_destination, a.destination,
                                         result.destination_amount_swapped),
              issued |-> <<debit_mutation, fee_mutation,
                           Mutation("transfer", a.swap_destination, a.destination,
                                    a.authority, result.destination_amount_swapped)>>]

process_swap_fee_unpaid(st, pl, lg, a) ==
    LET checks == swap_checks(st, pl, a)
        trade_direction == IF a.swap_source = pl.token_a THEN "AtoB" ELSE "BtoA"
        source_account == TokenInfo(a.swap_source)
        result == swap(a.amount_in, TokenAmount(lg, a.swap_source),
                       TokenAmount(lg, a.swap_destination), trade_direction, st.fees)
        debit == result.source_amount_swapped - result.owner_fee
        debited == ledger_transfer(lg, a.source, a.swap_source, debit)
        fee_paid == IF source_account.mint = WSOL_MINT_ADDRESS THEN debited
                    ELSE ledger_transfer(debited, a.source, a.fixed_fee_account, 0)
        debit_mutation == Mutation("transfer", a.source, a.swap_source,
                                   a.user_transfer_authority, debit)
        fee_mutation ==
            IF source_account.mint = WSOL_MINT_ADDRESS
            THEN Mutation("system_transfer", a.user_transfer_authority,
                          a.fixed_fee_wallet, a.user_transfer_authority, 0)
            ELSE Mutation("transfer", a.source, a.fixed_fee_account,
                          a.user_transfer_authority, 0)
    IN  IF checks # "Ok" THEN [result |-> checks, ledger |-> lg, issued |-> <<>>]
        ELSE IF result.none
            THEN [result |-> "ZeroTradingTokens", ledger |-> lg, issued |-> <<>>]
        ELSE IF result.destination_amount_swapped < a.minimum_amount_out
            THEN [result |-> "ExceededSlippage", ledger |-> lg, issued |-> <<>>]
        ELSE IF ~to_u64(debit)
            THEN [result |-> "ConversionFailure", ledger |-> lg, issued |-> <<>>]
        \* lines 654, 669, 681: the fee and the payout are converted after
        \* the debit, the payout after the fee payment
        ELSE IF ~to_u64(result.owner_fee)
            THEN [result |-> "ConversionFailure", ledger |-> debited,
                  issued |-> <<debit_mutation>>]
        ELSE IF ~to_u64(result.destination_amount_swapped)
            THEN [result |-> "ConversionFailure", ledger |-> fee_paid,
                  issued |-> <<debit_mutation, fee_mutation>>]
        ELSE [result |-> "Ok",
              ledger |-> ledger_transfer(fee_paid, a.swap_destination, a.destination,
                                         result.destination_amount_swapped),
              issued |-> <<debit_mutation, fee_mutation,
                           Mutation("transfer", a.swap_destination, a.destination,
                                    a.authority, result.destination_amount_swapped)>>]

process_swap_writes_reserve(st, pl, lg, a) ==
    LET checks == swap_checks(st, pl, a)
        trade_direction == IF a.swap_source = pl.token_a THEN "AtoB" ELSE "BtoA"
        source_account == TokenInfo(a.swap_source)
        result == swap(a.amount_in, TokenAmount(lg, a.swap_source),
                       TokenAmount(lg, a.swap_destination), trade_direction, st.fees)
        debit == result.source_amount_swapped - result.owner_fee
        debited == ledger_transfer(lg, a.source, a.swap_source, debit)
        fee_paid == IF source_account.mint = WSOL_MINT_ADDRESS THEN debited
                    ELSE ledger_transfer(debited, a.source, a.fixed_fee_account,
                                         result.owner_fee)
        debit_mutation == Mutation("transfer", a.source, a.swap_source,
                                   a.user_transfer_authority, debit)
        fee_mutation ==
            IF source_account.mint = WSOL_MINT_ADDRESS
            THEN Mutation("system_transfer", a.user_transfer_authority,
                          a.fixed_fee_wallet, a.user_transfer_authority, result.owner_fee)
            ELSE Mutation("transfer", a.source, a.fixed_fee_account,
                          a.user_transfer_authority, result.owner_fee)
    IN  IF checks # "Ok" THEN [result |-> checks, ledger |-> lg, issued |-> <<>>]
        ELSE IF result.none
            THEN [result |-> "ZeroTradingTokens", ledger |-> lg, issued |-> <<>>]
        ELSE IF result.destination_amount_swapped < a.minimum_amount_out
            THEN [result |-> "ExceededSlippage", ledger |-> lg, issued |-> <<>>]
        ELSE IF ~to_u64(debit)
            THEN [result |-> "ConversionFailure", ledger |-> lg, issued |-> <<>>]
        \* lines 654, 669, 681: the fee and the payout are converted after
        \* the debit, the payout after the fee payment
        ELSE IF ~to_u64(result.owner_fee)
            THEN [result |-> "ConversionFailure", ledger |-> debited,
                  issued |-> <<debit_mutation>>]
        ELSE IF ~to_u64(result.destination_amount_swapped)
            THEN [result |-> "ConversionFailure", ledger |-> fee_paid,
                  issued |-> <<debit_mutation, fee_mutation>>]
        ELSE [result |-> "Ok",
              ledger |-> [ledger_transfer(fee_paid, a.swap_destination, a.destination,
                                          result.destination_amount_swapped)
                             EXCEPT !.amount[a.swap_source] = @ + 1],
              issued |-> <<debit_mutation, fee_mutation,
                           Mutation("transfer", a.swap_destination, a.destination,
                                    a.authority, result.destination_amount_swapped)>>]

process_swap_debits_gross(st, pl, lg, a) ==
    LET checks == swap_checks(st, pl, a)
        trade_direction == IF a.swap_source = pl.token_a THEN "AtoB" ELSE "BtoA"
        source_account == TokenInfo(a.swap_source)
        result == swap(a.amount_in, TokenAmount(lg, a.swap_source),
                       TokenAmount(lg, a.swap_destination), trade_direction, st.fees)
        debit == result.source_amount_swapped
        debited == ledger_transfer(lg, a.source, a.swap_source, debit)
        fee_paid == IF source_account.mint = WSOL_MINT_ADDRESS THEN debited
                    ELSE ledger_transfer(debited, a.source, a.fixed_fee_account,
                                         result.owner_fee)
        debit_mutation == Mutation("transfer", a.source, a.swap_source,
                                   a.user_transfer_authority, debit)
        fee_mutation ==
            IF source_account.mint = WSOL_MINT_ADDRESS
            THEN Mutation("system_transfer", a.user_transfer_authority,
                          a.fixed_fee_wallet, a.user_transfer_authority, result.owner_fee)
            ELSE Mutation("transfer", a.source, a.fixed_fee_account,
                          a.user_transfer_authority, result.owner_fee)
    IN  IF checks # "Ok" THEN [result |-> checks, ledger |-> lg, issued |-> <<>>]
        ELSE IF result.none
            THEN [result |-> "ZeroTradingTokens", ledger |-> lg, issued |-> <<>>]
        ELSE IF result.destination_amount_swapped < a.minimum_amount_out
            THEN [result |-> "ExceededSlippage", ledger |-> lg, issued |-> <<>>]
        ELSE IF ~to_u64(debit)
            THEN [result |-> "ConversionFailure", ledger |-> lg, issued |-> <<>>]
        \* lines 654, 669, 681: the fee and the payout are converted after
        \* the debit, the payout after the fee payment
        ELSE IF ~to_u64(result.owner_fee)
            THEN [result |-> "ConversionFailure", ledger |-> debited,
                  issued |-> <<debit_mutation>>]
        ELSE IF ~to_u64(result.destination_amount_swapped)
            THEN [result |-> "ConversionFailure", ledger |-> fee_paid,
                  issued |-> <<debit_mutation, fee_mutation>>]
        ELSE [result |-> "Ok",
              ledger |-> ledger_transfer(fee_paid, a.swap_destination, a.destination,
                                         result.destination_amount_swapped),
              issued |-> <<debit_mutation, fee_mutation,
                           Mutation("transfer", a.swap_destination, a.destination,
                                    a.authority, result.destination_amount_swapped)>>]

process_swap_fee_always_token(st, pl, lg, a) ==
    LET checks == swap_checks(st, pl, a)
        trade_direction == IF a.swap_source = pl.token_a THEN "AtoB" ELSE "BtoA"
        source_account == TokenInfo(a.swap_source)
        result == swap(a.amount_in, TokenAmount(lg, a.swap_source),
                       TokenAmount(lg, a.swap_destination), trade_direction, st.fees)
        debit == result.source_amount_swapped - result.owner_fee
        debited == ledger_transfer(lg, a.source, a.swap_source, debit)
        fee_paid == IF FALSE THEN debited
                    ELSE ledger_transfer(debited, a.source, a.fixed_fee_account,
                                         result.owner_fee)
        debit_mutation == Mutation("transfer", a.source, a.swap_source,
                                   a.user_transfer_authority, debit)
        fee_mutation ==
            IF FALSE
            THEN Mutation("system_transfer", a.user_transfer_authority,
                          a.fixed_fee_wallet, a.user_transfer_authority, result.owner_fee)
            ELSE Mutation("transfer", a.source, a.fixed_fee_account,
                          a.user_transfer_authority, result.owner_fee)
    IN  IF checks # "Ok" THEN [result |-> checks, ledger |-> lg, issued |-> <<>>]
        ELSE IF result.none
            THEN [result |-> "ZeroTradingTokens", ledger |-> lg, issued |-> <<>>]
        ELSE IF result.destination_amount_swapped < a.minimum_amount_out
            THEN [result |-> "ExceededSlippage", ledger |-> lg, issued |-> <<>>]
        ELSE IF ~to_u64(debit)
            THEN [result |-> "ConversionFailure", ledger |-> lg, issued |-> <<>>]
        \* lines 654, 669, 681: the fee and the payout are converted after
        \* the debit, the payout after the fee payment
        ELSE IF ~to_u64(result.owner_fee)
            THEN [result |-> "ConversionFailure", ledger |-> debited,
                  issued |-> <<debit_mutation>>]
        ELSE IF ~to_u64(result.destination_amount_swapped)
            THEN [result |-> "ConversionFailure", ledger |-> fee_paid,
                  issued |-> <<debit_mutation, fee_mutation>>]
        ELSE [result |-> "Ok",
              ledger |-> ledger_transfer(fee_paid, a.swap_destination, a.destination,
                                         result.destination_amount_swapped),
              issued |-> <<debit_mutation, fee_mutation,
                           Mutation("transfer", a.swap_destination, a.destination,
                                    a.authority, result.destination_amount_swapped)>>]

process_swap_pays_out_first(st, pl, lg, a) ==
    LET checks == swap_checks(st, pl, a)
        trade_direction == IF a.swap_source = pl.token_a THEN "AtoB" ELSE "BtoA"
        source_account == TokenInfo(a.swap_source)
        result == swap(a.amount_in, TokenAmount(lg, a.swap_source),
                       TokenAmount(lg, a.swap_destination), trade_direction, st.fees)
        debit == result.source_amount_swapped - result.owner_fee
        debited == ledger_transfer(lg, a.source, a.swap_source, debit)
        fee_paid == IF source_account.mint = WSOL_MINT_ADDRESS THEN debited
                    ELSE ledger_transfer(debited, a.source, a.fixed_fee_account,
                                         result.owner_fee)
        debit_mutation == Mutation("transfer", a.source, a.swap_source,
                                   a.user_transfer_authority, debit)
        fee_mutation ==
            IF source_account.mint = WSOL_MINT_ADDRESS
            THEN Mutation("system_transfer", a.user_transfer_authority,
                          a.fixed_fee_wallet, a.user_transfer_authority, result.owner_fee)
            ELSE Mutation("transfer", a.source, a.fixed_fee_account,
                          a.user_transfer_authority, result.owner_fee)
    IN  IF checks # "Ok" THEN [result |-> checks, ledger |-> lg, issued |-> <<>>]
        ELSE IF result.none
            THEN [result |-> "ZeroTradingTokens", ledger |-> lg, issued |-> <<>>]
        ELSE IF result.destination_amount_swapped < a.minimum_amount_out
            THEN [result |-> "ExceededSlippage", ledger |-> lg, issued |-> <<>>]
        ELSE IF ~to_u64(debit)
            THEN [result |-> "ConversionFailure", ledger |-> lg, issued |-> <<>>]
        \* lines 654, 669, 681: the fee and the payout are converted after
        \* the debit, the payout after the fee payment
        ELSE IF ~to_u64(result.owner_fee)
            THEN [result |-> "ConversionFailure", ledger |-> debited,
                  issued |-> <<debit_mutation>>]
        ELSE IF ~to_u64(result.destination_amount_swapped)
            THEN [result |-> "ConversionFailure", ledger |-> fee_paid,
                  issued |-> <<debit_mutation, fee_mutation>>]
        ELSE [result |-> "Ok",
              ledger |-> ledger_transfer(fee_paid, a.swap_destination, a.destination,
                                         result.destination_amount_swapped),
              issued |-> <<Mutation("transfer", a.swap_destination, a.destination,
                                    a.authority, result.destination_amount_swapped),
                           debit_mutation, fee_mutation>>]

process_swap_slippage_before_zero(st, pl, lg, a) ==
    LET checks == swap_checks(st, pl, a)
        trade_direction == IF a.swap_source = pl.token_a THEN "AtoB" ELSE "BtoA"
        source_account == TokenInfo(a.swap_source)
        result == swap(a.amount_in, TokenAmount(lg, a.swap_source),
                       TokenAmount(lg, a.swap_destination), trade_direction, st.fees)
        debit == result.source_amount_swapped - result.owner_fee
        debited == ledger_transfer(lg, a.source, a.swap_source, debit)
        fee_paid == IF source_account.mint = WSOL_MINT_ADDRESS THEN debited
                    ELSE ledger_transfer(debited, a.source, a.fixed_fee_account,
                                         result.owner_fee)
        debit_mutation == Mutation("transfer", a.source, a.swap_source,
                                   a.user_transfer_authority, debit)
        fee_mutation ==
            IF source_account.mint = WSOL_MINT_ADDRESS
            THEN Mutation("system_transfer", a.user_transfer_authority,
                          a.fixed_fee_wallet, a.user_transfer_authority, result.owner_fee)
            ELSE Mutation("transfer", a.source, a.fixed_fee_account,
                          a.user_transfer_authority, result.owner_fee)
    IN  IF checks # "Ok" THEN [result |-> checks, ledger |-> lg, issued |-> <<>>]
        ELSE IF result.destination_amount_swapped < a.minimum_amount_out
            THEN [result |-> "ExceededSlippage", ledger |-> lg, issued |-> <<>>]
        ELSE IF result.none
            THEN [result |-> "ZeroTradingTokens", ledger |-> lg, issued |-> <<>>]
        ELSE IF ~to_u64(debit)
            THEN [result |-> "ConversionFailure", ledger |-> lg, issued |-> <<>>]
        \* lines 654, 669, 681: the fee and the payout are converted after
        \* the debit, the payout after the fee payment
        ELSE IF ~to_u64(result.owner_fee)
            THEN [result |-> "ConversionFailure", ledger |-> debited,
                  issued |-> <<debit_mutation>>]
        ELSE IF ~to_u64(result.destination_amount_swapped)
            THEN [result |-> "ConversionFailure", ledger |-> fee_paid,
                  issued |-> <<debit_mutation, fee_mutation>>]
        ELSE [result |-> "Ok",
              ledger |-> ledger_transfer(fee_paid, a.swap_destination, a.destination,
                                         result.destination_amount_swapped),
              issued |-> <<debit_mutation, fee_mutation,
                           Mutation("transfer", a.swap_destination, a.destination,
                                    a.authority, result.destination_amount_swapped)>>]

process_swap_reserves_exchanged(st, pl, lg, a) ==
    LET checks == swap_checks(st, pl, a)
        trade_direction == IF a.swap_source = pl.token_a THEN "AtoB" ELSE "BtoA"
        source_account == TokenInfo(a.swap_source)
        result == swap(a.amount_in, TokenAmount(lg, a.swap_destination),
                       TokenAmount(lg, a.swap_source), trade_direction, st.fees)
        debit == result.source_amount_swapped - result.owner_fee
        debited == ledger_transfer(lg, a.source, a.swap_source, debit)
        fee_paid == IF source_account.mint = WSOL_MINT_ADDRESS THEN debited
                    ELSE ledger_transfer(debited, a.source, a.fixed_fee_account,
                                         result.owner_fee)
        debit_mutation == Mutation("transfer", a.source, a.swap_source,
                                   a.user_transfer_authority, debit)
        fee_mutation ==
            IF source_account.mint = WSOL_MINT_ADDRESS
            THEN Mutation("system_transfer", a.user_transfer_authority,
                          a.fixed_fee_wallet, a.user_transfer_authority, result.owner_fee)
            ELSE Mutation("transfer", a.source, a.fixed_fee_account,
                          a.user_transfer_authority, result.owner_fee)
    IN  IF checks # "Ok" THEN [result |-> checks, ledger |-> lg, issued |-> <<>>]
        ELSE IF result.none
            THEN [result |-> "ZeroTradingTokens", ledger |-> lg, issued |-> <<>>]
        ELSE IF result.destination_amount_swapped < a.minimum_amount_out
            THEN [result |-> "ExceededSlippage", ledger |-> lg, issued |-> <<>>]
        ELSE IF ~to_u64(debit)
            THEN [result |-> "ConversionFailure", ledger |-> lg, issued |-> <<>>]
        \* lines 654, 669, 681: the fee and the payout are converted after
        \* the debit, the payout after the fee payment
        ELSE IF ~to_u64(result.owner_fee)
            THEN [result |-> "ConversionFailure", ledger |-> debited,
                  issued |-> <<debit_mutation>>]
        ELSE IF ~to_u64(result.destination_amount_swapped)
            THEN [result |-> "ConversionFailure", ledger |-> fee_paid,
                  issued |-> <<debit_mutation, fee_mutation>>]
        ELSE [result |-> "Ok",
              ledger |-> ledger_transfer(fee_paid, a.swap_destination, a.destination,
                                         result.destination_amount_swapped),
              issued |-> <<debit_mutation, fee_mutation,
                           Mutation("transfer", a.swap_destination, a.destination,
                                    a.authority, result.destination_amount_swapped)>>]

process_swap_debits_before_slippage(st, pl, lg, a) ==
    LET checks == swap_checks(st, pl, a)
        trade_direction == IF a.swap_source = pl.token_a THEN "AtoB" ELSE "BtoA"
        source_account == TokenInfo(a.swap_source)
        result == swap(a.amount_in, TokenAmount(lg, a.swap_source),
                       TokenAmount(lg, a.swap_destination), trade_direction, st.fees)
        debit == result.source_amount_swapped - result.owner_fee
        debited == ledger_transfer(lg, a.source, a.swap_source, debit)
        fee_paid == IF source_account.mint = WSOL_MINT_ADDRESS THEN debited
                    ELSE ledger_transfer(debited, a.source, a.fixed_fee_account,
                                         result.owner_fee)
        debit_mutation == Mutation("transfer", a.source, a.swap_source,
                                   a.user_transfer_authority, debit)
        fee_mutation ==
            IF source_account.mint = WSOL_MINT_ADDRESS
            THEN Mutation("system_transfer", a.user_transfer_authority,
                          a.fixed_fee_wallet, a.user_transfer_authority, result.owner_fee)
            ELSE Mutation("transfer", a.source, a.fixed_fee_account,
                          a.user_transfer_authority, result.owner_fee)
    IN  IF checks # "Ok" THEN [result |-> checks, ledger |-> lg, issued |-> <<>>]
        ELSE IF result.none
            THEN [result |-> "ZeroTradingTokens", ledger |-> lg, issued |-> <<>>]
        ELSE IF result.destination_amount_swapped < a.minimum_amount_out
            THEN [result |-> "ExceededSlippage", ledger |-> debited,
                  issued |-> <<debit_mutation>>]
        ELSE IF ~to_u64(debit)
            THEN [result |-> "ConversionFailure", ledger |-> lg, issued |-> <<>>]
        \* lines 654, 669, 681: the fee and the payout are converted after
        \* the debit, the payout after the fee payment
        ELSE IF ~to_u64(result.owner_fee)
            THEN [result |-> "ConversionFailure", ledger |-> debited,
                  issued |-> <<debit_mutation>>]
        ELSE IF ~to_u64(result.destination_amount_swapped)
            THEN [result |-> "ConversionFailure", ledger |-> fee_paid,
                  issued |-> <<debit_mutation, fee_mutation>>]
        ELSE [result |-> "Ok",
              ledger |-> ledger_transfer(fee_paid, a.swap_destination, a.destination,
                                         result.destination_amount_swapped),
              issued |-> <<debit_mutation, fee_mutation,
                           Mutation("transfer", a.swap_destination, a.destination,
                                    a.authority, result.destination_amount_swapped)>>]

process_swap(st, pl, lg, a) ==
    LET checks == swap_checks(st, pl, a)
        trade_direction == IF a.swap_source = pl.token_a THEN "AtoB" ELSE "BtoA"
        source_account == TokenInfo(a.swap_source)
        result == swap(a.amount_in, TokenAmount(lg, a.swap_source),
                       TokenAmount(lg, a.swap_destination), trade_direction, st.fees)
        debit == result.source_amount_swapped - result.owner_fee
        debited == ledger_transfer(lg, a.source, a.swap_source, debit)
        fee_paid == IF source_account.mint = WSOL_MINT_ADDRESS THEN debited
                    ELSE ledger_transfer(debited, a.source, a.fixed_fee_account,
                                         result.owner_fee)
        debit_mutation == Mutation("transfer", a.source, a.swap_source,
                                   a.user_transfer_authority, debit)
        fee_mutation ==
            IF source_account.mint = WSOL_MINT_ADDRESS
            THEN Mutation("system_transfer", a.user_transfer_authority,
                          a.fixed_fee_wallet, a.user_transfer_authority, result.owner_fee)
            ELSE Mutation("transfer", a.source, a.fixed_fee_account,
                          a.user_transfer_authority, result.owner_fee)
    IN  IF checks # "Ok" THEN [result |-> checks, ledger |-> lg, issued |-> <<>>]
        ELSE IF result.none
            THEN [result |-> "ZeroTradingTokens", ledger |-> lg, issued |-> <<>>]
        ELSE IF result.destination_amount_swapped < a.minimum_amount_out
            THEN [result |-> "ExceededSlippage", ledger |-> lg, issued |-> <<>>]
        ELSE IF ~to_u64(debit)
            THEN [result |-> "ConversionFailure", ledger |-> lg, issued |-> <<>>]
        \* lines 654, 669, 681: the fee and the payout are converted after
        \* the debit, the payout after the fee payment
        ELSE IF ~to_u64(result.owner_fee)
            THEN [result |-> "ConversionFailure", ledger |-> debited,
                  issued |-> <<debit_mutation>>]
        ELSE IF ~to_u64(result.destination_amount_swapped)
            THEN [result |-> "ConversionFailure", ledger |-> fee_paid,
                  issued |-> <<debit_mutation, fee_mutation>>]
        ELSE [result |-> "Ok",
              ledger |-> ledger_transfer(fee_paid, a.swap_destination, a.destination,
                                         result.destination_amount_swapped),
              issued |-> <<debit_mutation, fee_mutation,
                           Mutation("transfer", a.swap_destination, a.destination,
                                    a.authority, result.destination_amount_swapped)>>]

\* lines 711-740, 829-854: the checks the two all-token-type handlers make
\* before the amounts are computed; the deposit handler asks the calculator
\* whether it allows deposits.
liquidity_checks(st, pl, a, is_deposit) ==
    IF SwapVersion_unpack(pl) # "Ok" THEN SwapVersion_unpack(pl)
    ELSE IF check_state_account(a.state_key) # "Ok" THEN check_state_account(a.state_key)
    ELSE IF unpack_from_slice(st).is_initialized = FALSE
            THEN "NotInitializedState"
    ELSE IF is_deposit /\ ~allows_deposits(st.swap_curve.calculator)
        THEN "UnsupportedCurveOperation"
    ELSE IF check_accounts(pl, a, a.user_a, a.user_b) # "Ok"
        THEN check_accounts(pl, a, a.user_a, a.user_b)
    ELSE IF unpack_token_account(a.token_a, pl.token_program_id) # "Ok"
        THEN unpack_token_account(a.token_a, pl.token_program_id)
    ELSE IF unpack_token_account(a.token_b, pl.token_program_id) # "Ok"
        THEN unpack_token_account(a.token_b, pl.token_program_id)
    ELSE IF unpack_mint(a.pool_mint, pl.token_program_id) # "Ok"
        THEN unpack_mint(a.pool_mint, pl.token_program_id)
    ELSE "Ok"

process_deposit_all_token_types_mints_first(st, pl, lg, a) ==
    LET checks == liquidity_checks(st, pl, a, TRUE)
        current_pool_mint_supply == MintSupply(lg, a.pool_mint)
        pool_token_amount == IF current_pool_mint_supply > 0 THEN a.pool_token_amount
                             ELSE st.initial_supply
        pool_mint_supply == IF current_pool_mint_supply > 0 THEN current_pool_mint_supply
                            ELSE st.initial_supply
        results == pool_tokens_to_trading_tokens(pool_token_amount, pool_mint_supply,
                       TokenAmount(lg, a.token_a), TokenAmount(lg, a.token_b), "Ceiling")
        token_a_amount == results.token_a_amount
        token_b_amount == results.token_b_amount
        Err(e) == [result |-> e, ledger |-> lg, issued |-> <<>>]
    IN  IF checks # "Ok" THEN Err(checks)
        ELSE IF results.none THEN Err("ZeroTradingTokens")
        ELSE IF token_a_amount > a.maximum_token_a_amount THEN Err("ExceededSlippage")
        ELSE IF token_a_amount = 0 THEN Err("ZeroTradingTokens")
        ELSE IF token_b_amount > a.maximum_token_b_amount THEN Err("ExceededSlippage")
        ELSE IF token_b_amount = 0 THEN Err("ZeroTradingTokens")
        ELSE [result |-> "Ok",
              ledger |-> ledger_mint_to(
                             ledger_transfer(
                                 ledger_transfer(lg, a.user_a, a.token_a, token_a_amount),
                                 a.user_b, a.token_b, token_b_amount),
                             a.pool_mint, a.user_lp, pool_token_amount),
              issued |-> <<Mutation("mint_to", a.pool_mint, a.user_lp, a.authority,
                                    pool_token_amount),
                           Mutation("transfer", a.user_a, a.token_a,
                                     a.user_transfer_authority, token_a_amount),
                           Mutation("transfer", a.user_b, a.token_b,
                                    a.user_transfer_authority, token_b_amount)>>]

process_deposit_all_token_types_floor(st, pl, lg, a) ==
    LET checks == liquidity_checks(st, pl, a, TRUE)
        current_pool_mint_supply == MintSupply(lg, a.pool_mint)
        pool_token_amount == IF current_pool_mint_supply > 0 THEN a.pool_token_amount
                             ELSE st.initial_supply
        pool_mint_supply == IF current_pool_mint_supply > 0 THEN current_pool_mint_supply
                            ELSE st.initial_supply
        results == pool_tokens_to_trading_tokens(pool_token_amount, pool_mint_supply,
                       TokenAmount(lg, a.token_a), TokenAmount(lg, a.token_b), "Floor")
        token_a_amount == results.token_a_amount
        token_b_amount == results.token_b_amount
        Err(e) == [result |-> e, ledger |-> lg, issued |-> <<>>]
    IN  IF checks # "Ok" THEN Err(checks)
        ELSE IF results.none THEN Err("ZeroTradingTokens")
        ELSE IF token_a_amount > a.maximum_token_a_amount THEN Err("ExceededSlippage")
        ELSE IF token_a_amount = 0 THEN Err("ZeroTradingTokens")
        ELSE IF token_b_amount > a.maximum_token_b_amount THEN Err("ExceededSlippage")
        ELSE IF token_b_amount = 0 THEN Err("ZeroTradingTokens")
        ELSE [result |-> "Ok",
              ledger |-> ledger_mint_to(
                             ledger_transfer(
                                 ledger_transfer(lg, a.user_a, a.token_a, token_a_amount),
                                 a.user_b, a.token_b, token_b_amount),
                             a.pool_mint, a.user_lp, pool_token_amount),
              issued |-> <<Mutation("transfer", a.user_a, a.token_a,
                                     a.user_transfer_authority, token_a_amount),
                           Mutation("transfer", a.user_b, a.token_b,
                                    a.user_transfer_authority, token_b_amount),
                           Mutation("mint_to", a.pool_mint, a.user_lp, a.authority,
                                    pool_token_amount)>>]

process_deposit_all_token_types(st, pl, lg, a) ==
    LET checks == liquidity_checks(st, pl, a, TRUE)
        current_pool_mint_supply == MintSupply(lg, a.pool_mint)
        pool_token_amount == IF current_pool_mint_supply > 0 THEN a.pool_token_amount
                             ELSE st.initial_supply
        pool_mint_supply == IF current_pool_mint_supply > 0 THEN current_pool_mint_supply
                            ELSE st.initial_supply
        results == pool_tokens_to_trading_tokens(pool_token_amount, pool_mint_supply,
                       TokenAmount(lg, a.token_a), TokenAmount(lg, a.token_b), "Ceiling")
        token_a_amount == results.token_a_amount
        token_b_amount == results.token_b_amount
        Err(e) == [result |-> e, ledger |-> lg, issued |-> <<>>]
    IN  IF checks # "Ok" THEN Err(checks)
        ELSE IF results.none THEN Err("ZeroTradingTokens")
        ELSE IF token_a_amount > a.maximum_token_a_amount THEN Err("ExceededSlippage")
        ELSE IF token_a_amount = 0 THEN Err("ZeroTradingTokens")
        ELSE IF token_b_amount > a.maximum_token_b_amount THEN Err("ExceededSlippage")
        ELSE IF token_b_amount = 0 THEN Err("ZeroTradingTokens")
        ELSE [result |-> "Ok",
              ledger |-> ledger_mint_to(
                             ledger_transfer(
                                 ledger_transfer(lg, a.user_a, a.token_a, token_a_amount),
                                 a.user_b, a.token_b, token_b_amount),
                             a.pool_mint, a.user_lp, pool_token_amount),
              issued |-> <<Mutation("transfer", a.user_a, a.token_a,
                                     a.user_transfer_authority, token_a_amount),
                           Mutation("transfer", a.user_b, a.token_b,
                                    a.user_transfer_authority, token_b_amount),
                           Mutation("mint_to", a.pool_mint, a.user_lp, a.authority,
                                    pool_token_amount)>>]

process_withdraw_all_token_types_ceiling(st, pl, lg, a) ==
    LET checks == liquidity_checks(st, pl, a, FALSE)
        supply == MintSupply(lg, a.pool_mint)
        withdraw_fee == 0
        pool_token_amount == Min(a.pool_token_amount - withdraw_fee, supply - MIN_LP_SUPPLY)
        results == pool_tokens_to_trading_tokens(pool_token_amount, supply,
                       TokenAmount(lg, a.token_a), TokenAmount(lg, a.token_b), "Ceiling")
        token_a_amount == Min(TokenAmount(lg, a.token_a), results.token_a_amount)
        token_b_amount == Min(TokenAmount(lg, a.token_b), results.token_b_amount)
        burn == <<Mutation("burn", a.user_lp, a.pool_mint, a.user_transfer_authority,
                           pool_token_amount)>>
        pay_a == IF token_a_amount > 0
                 THEN <<Mutation("transfer", a.token_a, a.user_a, a.authority,
                                 token_a_amount)>>
                 ELSE <<>>
        pay_b == IF token_b_amount > 0
                 THEN <<Mutation("transfer", a.token_b, a.user_b, a.authority,
                                 token_b_amount)>>
                 ELSE <<>>
        Err(e) == [result |-> e, ledger |-> lg, issued |-> <<>>]
    IN  IF checks # "Ok" THEN Err(checks)
        ELSE IF a.pool_token_amount < withdraw_fee THEN Err("CalculationFailure")
        ELSE IF supply < MIN_LP_SUPPLY THEN Err("CalculationFailure")
        ELSE IF results.none THEN Err("ZeroTradingTokens")
        ELSE IF token_a_amount < a.minimum_token_a_amount THEN Err("ExceededSlippage")
        ELSE IF token_a_amount = 0 /\ TokenAmount(lg, a.token_a) # 0
            THEN Err("ZeroTradingTokens")
        ELSE IF token_b_amount < a.minimum_token_b_amount THEN Err("ExceededSlippage")
        ELSE IF token_b_amount = 0 /\ TokenAmount(lg, a.token_b) # 0
            THEN Err("ZeroTradingTokens")
        ELSE [result |-> "Ok",
              ledger |-> ledger_transfer(
                             ledger_transfer(
                                 ledger_burn(lg, a.user_lp, a.pool_mint, pool_token_amount),
                                 a.token_a, a.user_a, token_a_amount),
                             a.token_b, a.user_b, token_b_amount),
              issued |-> burn \o pay_a \o pay_b]

process_withdraw_all_token_types_withdraw_fee(st, pl, lg, a) ==
    LET checks == liquidity_checks(st, pl, a, FALSE)
        supply == MintSupply(lg, a.pool_mint)
        withdraw_fee == 1
        pool_token_amount == Min(a.pool_token_amount - withdraw_fee, supply - MIN_LP_SUPPLY)
        results == pool_tokens_to_trading_tokens(pool_token_amount, supply,
                       TokenAmount(lg, a.token_a), TokenAmount(lg, a.token_b), "Floor")
        token_a_amount == Min(TokenAmount(lg, a.token_a), results.token_a_amount)
        token_b_amount == Min(TokenAmount(lg, a.token_b), results.token_b_amount)
        burn == <<Mutation("burn", a.user_lp, a.pool_mint, a.user_transfer_authority,
                           pool_token_amount)>>
        pay_a == IF token_a_amount > 0
                 THEN <<Mutation("transfer", a.token_a, a.user_a, a.authority,
                                 token_a_amount)>>
                 ELSE <<>>
        pay_b == IF token_b_amount > 0
                 THEN <<Mutation("transfer", a.token_b, a.user_b, a.authority,
                                 token_b_amount)>>
                 ELSE <<>>
        Err(e) == [result |-> e, ledger |-> lg, issued |-> <<>>]
    IN  IF checks # "Ok" THEN Err(checks)
        ELSE IF a.pool_token_amount < withdraw_fee THEN Err("CalculationFailure")
        ELSE IF supply < MIN_LP_SUPPLY THEN Err("CalculationFailure")
        ELSE IF results.none THEN Err("ZeroTradingTokens")
        ELSE IF token_a_amount < a.minimum_token_a_amount THEN Err("ExceededSlippage")
        ELSE IF token_a_amount = 0 /\ TokenAmount(lg, a.token_a) # 0
            THEN Err("ZeroTradingTokens")
        ELSE IF token_b_amount < a.minimum_token_b_amount THEN Err("ExceededSlippage")
        ELSE IF token_b_amount = 0 /\ TokenAmount(lg, a.token_b) # 0
            THEN Err("ZeroTradingTokens")
        ELSE [result |-> "Ok",
              ledger |-> ledger_transfer(
                             ledger_transfer(
                                 ledger_burn(lg, a.user_lp, a.pool_mint, pool_token_amount),
                                 a.token_a, a.user_a, token_a_amount),
                             a.token_b, a.user_b, token_b_amount),
              issued |-> burn \o pay_a \o pay_b]

process_withdraw_all_token_types_supply_after_burn(st, pl, lg, a) ==
    LET checks == liquidity_checks(st, pl, a, FALSE)
        supply == MintSupply(lg, a.pool_mint)
        withdraw_fee == 0
        pool_token_amount == Min(a.pool_token_amount - withdraw_fee, supply - MIN_LP_SUPPLY)
        results == pool_tokens_to_trading_tokens(pool_token_amount,
                       supply - pool_token_amount,
                       TokenAmount(lg, a.token_a), TokenAmount(lg, a.token_b), "Floor")
        token_a_amount == Min(TokenAmount(lg, a.token_a), results.token_a_amount)
        token_b_amount == Min(TokenAmount(lg, a.token_b), results.token_b_amount)
        burn == <<Mutation("burn", a.user_lp, a.pool_mint, a.user_transfer_authority,
                           pool_token_amount)>>
        pay_a == IF token_a_amount > 0
                 THEN <<Mutation("transfer", a.token_a, a.user_a, a.authority,
                                 token_a_amount)>>
                 ELSE <<>>
        pay_b == IF token_b_amount > 0
                 THEN <<Mutation("transfer", a.token_b, a.user_b, a.authority,
                                 token_b_amount)>>
                 ELSE <<>>
        Err(e) == [result |-> e, ledger |-> lg, issued |-> <<>>]
    IN  IF checks # "Ok" THEN Err(checks)
        ELSE IF a.pool_token_amount < withdraw_fee THEN Err("CalculationFailure")
        ELSE IF supply < MIN_LP_SUPPLY THEN Err("CalculationFailure")
        ELSE IF results.none THEN Err("ZeroTradingTokens")
        ELSE IF token_a_amount < a.minimum_token_a_amount THEN Err("ExceededSlippage")
        ELSE IF token_a_amount = 0 /\ TokenAmount(lg, a.token_a) # 0
            THEN Err("ZeroTradingTokens")
        ELSE IF token_b_amount < a.minimum_token_b_amount THEN Err("ExceededSlippage")
        ELSE IF token_b_amount = 0 /\ TokenAmount(lg, a.token_b) # 0
            THEN Err("ZeroTradingTokens")
        ELSE [result |-> "Ok",
              ledger |-> ledger_transfer(
                             ledger_transfer(
                                 ledger_burn(lg, a.user_lp, a.pool_mint, pool_token_amount),
                                 a.token_a, a.user_a, token_a_amount),
                             a.token_b, a.user_b, token_b_amount),
              issued |-> burn \o pay_a \o pay_b]

process_withdraw_all_token_types_unchecked_b(st, pl, lg, a) ==
    LET checks == liquidity_checks(st, pl, a, FALSE)
        supply == MintSupply(lg, a.pool_mint)
        withdraw_fee == 0
        pool_token_amount == Min(a.pool_token_amount - withdraw_fee, supply - MIN_LP_SUPPLY)
        results == pool_tokens_to_trading_tokens(pool_token_amount, supply,
                       TokenAmount(lg, a.token_a), TokenAmount(lg, a.token_b), "Floor")
        token_a_amount == Min(TokenAmount(lg, a.token_a), results.token_a_amount)
        token_b_amount == Min(TokenAmount(lg, a.token_b), results.token_b_amount)
        burn == <<Mutation("burn", a.user_lp, a.pool_mint, a.user_transfer_authority,
                           pool_token_amount)>>
        pay_a == IF token_a_amount > 0
                 THEN <<Mutation("transfer", a.token_a, a.user_a, a.authority,
                                 token_a_amount)>>
                 ELSE <<>>
        pay_b == IF token_b_amount > 0
                 THEN <<Mutation("transfer", a.token_b, a.user_b, a.authority,
                                 token_b_amount)>>
                 ELSE <<>>
        Err(e) == [result |-> e, ledger |-> lg, issued |-> <<>>]
    IN  IF checks # "Ok" THEN Err(checks)
        ELSE IF a.pool_token_amount < withdraw_fee THEN Err("CalculationFailure")
        ELSE IF supply < MIN_LP_SUPPLY THEN Err("CalculationFailure")
        ELSE IF results.none THEN Err("ZeroTradingTokens")
        ELSE IF token_a_amount < a.minimum_token_a_amount THEN Err("ExceededSlippage")
        ELSE IF token_a_amount = 0 /\ TokenAmount(lg, a.token_a) # 0
            THEN Err("ZeroTradingTokens")
        ELSE IF token_b_amount = 0 /\ TokenAmount(lg, a.token_b) # 0
            THEN Err("ZeroTradingTokens")
        ELSE [result |-> "Ok",
              ledger |-> ledger_transfer(
                             ledger_transfer(
                                 ledger_burn(lg, a.user_lp, a.pool_mint, pool_token_amount),
                                 a.token_a, a.user_a, token_a_amount),
                             a.token_b, a.user_b, token_b_amount),
              issued |-> burn \o pay_a \o pay_b]

process_withdraw_all_token_types(st, pl, lg, a) ==
    LET checks == liquidity_checks(st, pl, a, FALSE)
        supply == MintSupply(lg, a.pool_mint)
        withdraw_fee == 0
        pool_token_amount == Min(a.pool_token_amount - withdraw_fee, supply - MIN_LP_SUPPLY)
        results == pool_tokens_to_trading_tokens(pool_token_amount, supply,
                       TokenAmount(lg, a.token_a), TokenAmount(lg, a.token_b), "Floor")
        token_a_amount == Min(TokenAmount(lg, a.token_a), results.token_a_amount)
        token_b_amount == Min(TokenAmount(lg, a.token_b), results.token_b_amount)
        burn == <<Mutation("burn", a.user_lp, a.pool_mint, a.user_transfer_authority,
                           pool_token_amount)>>
        pay_a == IF token_a_amount > 0
                 THEN <<Mutation("transfer", a.token_a, a.user_a, a.authority,
                                 token_a_amount)>>
                 ELSE <<>>
        pay_b == IF token_b_amount > 0
                 THEN <<Mutation("transfer", a.token_b, a.user_b, a.authority,
                                 token_b_amount)>>
                 ELSE <<>>
        Err(e) == [result |-> e, ledger |-> lg, issued |-> <<>>]
    IN  IF checks # "Ok" THEN Err(checks)
        ELSE IF a.pool_token_amount < withdraw_fee THEN Err("CalculationFailure")
        ELSE IF supply < MIN_LP_SUPPLY THEN Err("CalculationFailure")
        ELSE IF results.none THEN Err("ZeroTradingTokens")
        ELSE IF token_a_amount < a.minimum_token_a_amount THEN Err("ExceededSlippage")
        ELSE IF token_a_amount = 0 /\ TokenAmount(lg, a.token_a) # 0
            THEN Err("ZeroTradingTokens")
        ELSE IF token_b_amount < a.minimum_token_b_amount THEN Err("ExceededSlippage")
        ELSE IF token_b_amount = 0 /\ TokenAmount(lg, a.token_b) # 0
            THEN Err("ZeroTradingTokens")
        ELSE [result |-> "Ok",
              ledger |-> ledger_transfer(
                             ledger_transfer(
                                 ledger_burn(lg, a.user_lp, a.pool_mint, pool_token_amount),
                                 a.token_a, a.user_a, token_a_amount),
                             a.token_b, a.user_b, token_b_amount),
              issued |-> burn \o pay_a \o pay_b]

\* lines 970-1011, 1095-1135: the checks of the two single-token-type
\* handlers; `user` is the source of the deposit or the destination of the
\* withdrawal.
single_trade_direction(a) ==
    IF TokenInfo(a.user).mint = TokenInfo(a.token_a).mint THEN "AtoB"
    ELSE IF TokenInfo(a.user).mint = TokenInfo(a.token_b).mint THEN "BtoA"
    ELSE "none"

single_checks(st, pl, a) ==
    LET trade_direction == single_trade_direction(a)
        user_a == IF trade_direction = "AtoB" THEN a.user ELSE NoAccount
        user_b == IF trade_direction = "BtoA" THEN a.user ELSE NoAccount
    IN  IF SwapVersion_unpack(pl) # "Ok" THEN SwapVersion_unpack(pl)
        ELSE IF check_state_account(a.state_key) # "Ok"
            THEN check_state_account(a.state_key)
        ELSE IF unpack_from_slice(st).is_initialized = FALSE
            THEN "NotInitializedState"
        ELSE IF unpack_token_account(a.user, pl.token_program_id) # "Ok"
            THEN unpack_token_account(a.user, pl.token_program_id)
        ELSE IF unpack_token_account(a.token_a, pl.token_program_id) # "Ok"
            THEN unpack_token_account(a.token_a, pl.token_program_id)
        ELSE IF unpack_token_account(a.token_b, pl.token_program_id) # "Ok"
            THEN unpack_token_account(a.token_b, pl.token_program_id)
        ELSE IF trade_direction = "none" THEN "IncorrectSwapAccount"
        ELSE IF check_accounts(pl, a, user_a, user_b) # "Ok"
            THEN check_accounts(pl, a, user_a, user_b)
        ELSE IF unpack_mint(a.pool_mint, pl.token_program_id) # "Ok"
            THEN unpack_mint(a.pool_mint, pl.token_program_id)
        ELSE "Ok"

process_deposit_single_token_type_exact_amount_in_always_curve(st, pl, lg, a) ==
    LET checks == single_checks(st, pl, a)
        trade_direction == single_trade_direction(a)
        pool_mint_supply == MintSupply(lg, a.pool_mint)
        computed == deposit_single_token_type(a.source_token_amount,
                        TokenAmount(lg, a.token_a), TokenAmount(lg, a.token_b),
                        pool_mint_supply, trade_direction, st.fees)
        pool_token_amount == computed.amount
        swap_token == IF trade_direction = "AtoB" THEN a.token_a ELSE a.token_b
        Err(e) == [result |-> e, ledger |-> lg, issued |-> <<>>]
    IN  IF checks # "Ok" THEN Err(checks)
        ELSE IF computed.none THEN Err("ZeroTradingTokens")
        ELSE IF pool_token_amount < a.minimum_pool_token_amount THEN Err("ExceededSlippage")
        ELSE IF pool_token_amount = 0 THEN Err("ZeroTradingTokens")
        ELSE [result |-> "Ok",
              ledger |-> ledger_mint_to(
                             ledger_transfer(lg, a.user, swap_token, a.source_token_amount),
                             a.pool_mint, a.user_lp, pool_token_amount),
              issued |-> <<Mutation("transfer", a.user, swap_token,
                                     a.user_transfer_authority, a.source_token_amount),
                           Mutation("mint_to", a.pool_mint, a.user_lp, a.authority,
                                    pool_token_amount)>>]

process_deposit_single_token_type_exact_amount_in(st, pl, lg, a) ==
    LET checks == single_checks(st, pl, a)
        trade_direction == single_trade_direction(a)
        pool_mint_supply == MintSupply(lg, a.pool_mint)
        computed == deposit_single_token_type(a.source_token_amount,
                        TokenAmount(lg, a.token_a), TokenAmount(lg, a.token_b),
                        pool_mint_supply, trade_direction, st.fees)
        pool_token_amount == IF pool_mint_supply > 0 THEN computed.amount
                             ELSE st.initial_supply
        swap_token == IF trade_direction = "AtoB" THEN a.token_a ELSE a.token_b
        Err(e) == [result |-> e, ledger |-> lg, issued |-> <<>>]
    IN  IF checks # "Ok" THEN Err(checks)
        ELSE IF pool_mint_supply > 0 /\ computed.none THEN Err("ZeroTradingTokens")
        ELSE IF pool_token_amount < a.minimum_pool_token_amount THEN Err("ExceededSlippage")
        ELSE IF pool_token_amount = 0 THEN Err("ZeroTradingTokens")
        ELSE [result |-> "Ok",
              ledger |-> ledger_mint_to(
                             ledger_transfer(lg, a.user, swap_token, a.source_token_amount),
                             a.pool_mint, a.user_lp, pool_token_amount),
              issued |-> <<Mutation("transfer", a.user, swap_token,
                                     a.user_transfer_authority, a.source_token_amount),
                           Mutation("mint_to", a.pool_mint, a.user_lp, a.authority,
                                    pool_token_amount)>>]

process_withdraw_single_token_type_exact_amount_out(st, pl, lg, a) ==
    LET checks == single_checks(st, pl, a)
        trade_direction == single_trade_direction(a)
        computed == withdraw_single_token_type_exact_out(a.destination_token_amount,
                        TokenAmount(lg, a.token_a), TokenAmount(lg, a.token_b),
                        MintSupply(lg, a.pool_mint), trade_direction, st.fees)
        burn_pool_token_amount == computed.amount
        withdraw_fee == 0
        pool_token_amount == burn_pool_token_amount + withdraw_fee
        swap_token == IF trade_direction = "AtoB" THEN a.token_a ELSE a.token_b
        Err(e) == [result |-> e, ledger |-> lg, issued |-> <<>>]
    IN  IF checks # "Ok" THEN Err(checks)
        ELSE IF computed.none THEN Err("ZeroTradingTokens")
        ELSE IF pool_token_amount > a.maximum_pool_token_amount THEN Err("ExceededSlippage")
        ELSE IF pool_token_amount = 0 THEN Err("ZeroTradingTokens")
        ELSE [result |-> "Ok",
              ledger |-> ledger_transfer(
                             ledger_burn(lg, a.user_lp, a.pool_mint, burn_pool_token_amount),
                             swap_token, a.user, a.destination_token_amount),
              issued |-> <<Mutation("burn", a.user_lp, a.pool_mint,
                                     a.user_transfer_authority, burn_pool_token_amount),
                           Mutation("transfer", swap_token, a.user, a.authority,
                                    a.destination_token_amount)>>]

\* The data behind swap_info: the Pool record when the account is the
\* program's, and for an account of another program whatever that program
\* wrote, here a record that unpacks as an initialized pool.
ForeignPool ==
    [is_initialized |-> TRUE, nonce |-> PoolNonce, amm_id |-> "Amm",
     dex_program_id |-> "Dex", market_id |-> "Market", token_program_id |-> TokenProgram,
     token_a |-> "poolA", token_b |-> "poolB", pool_mint |-> "lpMint",
     token_a_mint |-> "mintA", token_b_mint |-> WSOL_MINT_ADDRESS]

swap_info_data(pl, a) == IF a.swap_owner = ProgramId THEN pl ELSE ForeignPool

\* The accounts every trading request names, as a user of the pool of
\* GoodInitialize names them.
GoodAccounts ==
    [swap |-> "swap", swap_owner |-> ProgramId, authority |-> PoolAuthority,
     user_transfer_authority |-> UserKey, state_key |-> AmmStateAddress,
     pool_mint |-> "lpMint", token_program |-> TokenProgram]

\* The same request at another state address, with another authority, on an
\* account of another program.
AccountFaults(a) ==
    {[a EXCEPT !.state_key = "OtherAccount"],
     [a EXCEPT !.authority = UserKey],
     [a EXCEPT !.swap_owner = "OtherProgram"]}

TradeAmount == 100

GoodSwap(from, to) ==
    GoodAccounts @@
    [source |-> "user" \o from, swap_source |-> "pool" \o from,
     swap_destination |-> "pool" \o to, destination |-> "user" \o to,
     fixed_fee_account |-> "fee" \o from, fixed_fee_wallet |-> OWNER_KEY,
     amount_in |-> TradeAmount, minimum_amount_out |-> 0]

SwapArgs ==
    {[GoodSwap(d[1], d[2]) EXCEPT !.amount_in = n, !.minimum_amount_out = m] :
        d \in {<<"A", "B">>, <<"B", "A">>}, n \in {TradeAmount, 0}, m \in {0, 1000}}
        \cup AccountFaults(GoodSwap("A", "B"))
        \cup {[GoodSwap("A", "B") EXCEPT !.fixed_fee_wallet = UserKey],
              [GoodSwap("A", "B") EXCEPT !.fixed_fee_account = "feeB"],
              [GoodSwap("A", "B") EXCEPT !.fixed_fee_wallet = UserKey,
                                         !.fixed_fee_account = "userA"]}

Swap ==
    /\ trades < MaxTrades
    /\ \E a \in SwapArgs :
        \E r \in {process_swap(state, swap_info_data(pool, a), ledger, a)} :
            /\ ledger' = r.ledger
            /\ trades' = IF r.result = "Ok" THEN trades + 1 ELSE trades
            /\ last' = [op |-> "Swap", result |-> r.result, issued |-> r.issued]
            /\ UNCHANGED <<state, written, pool, call>>

GoodLiquidity ==
    GoodAccounts @@
    [token_a |-> "poolA", token_b |-> "poolB", user_a |-> "userA", user_b |-> "userB",
     user_lp |-> "userLP"]

PoolTokenAmount == 250000

DepositAllArgs ==
    {GoodLiquidity @@ [pool_token_amount |-> p, maximum_token_a_amount |-> m,
                       maximum_token_b_amount |-> m] :
        p \in {PoolTokenAmount, 0}, m \in {INITIAL_SWAP_POOL_AMOUNT, 0}}
        \cup AccountFaults(GoodLiquidity @@
                 [pool_token_amount |-> PoolTokenAmount,
                  maximum_token_a_amount |-> INITIAL_SWAP_POOL_AMOUNT,
                  maximum_token_b_amount |-> INITIAL_SWAP_POOL_AMOUNT])

DepositAllTokenTypes ==
    /\ trades < MaxTrades
    /\ \E a \in DepositAllArgs :
        \E r \in {process_deposit_all_token_types(state, swap_info_data(pool, a),
                                                   ledger, a)} :
            /\ ledger' = r.ledger
            /\ trades' = IF r.result = "Ok" THEN trades + 1 ELSE trades
            /\ last' = [op |-> "DepositAllTokenTypes", result |-> r.result,
                        issued |-> r.issued]
            /\ UNCHANGED <<state, written, pool, call>>

WithdrawAllArgs ==
    {GoodLiquidity @@ [pool_token_amount |-> p, minimum_token_a_amount |-> m,
                       minimum_token_b_amount |-> m] :
        p \in {PoolTokenAmount, 2 * INITIAL_SWAP_POOL_AMOUNT, 0},
        m \in {0, INITIAL_SWAP_POOL_AMOUNT}}
        \cup AccountFaults(GoodLiquidity @@
                 [pool_token_amount |-> PoolTokenAmount, minimum_token_a_amount |-> 0,
                  minimum_token_b_amount |-> 0])

WithdrawAllTokenTypes ==
    /\ trades < MaxTrades
    /\ \E a \in WithdrawAllArgs :
        \E r \in {process_withdraw_all_token_types(state, swap_info_data(pool, a),
                                                    ledger, a)} :
            /\ ledger' = r.ledger
            /\ trades' = IF r.result = "Ok" THEN trades + 1 ELSE trades
            /\ last' = [op |-> "WithdrawAllTokenTypes", result |-> r.result,
                        issued |-> r.issued]
            /\ UNCHANGED <<state, written, pool, call>>

GoodSingle(side) ==
    GoodAccounts @@
    [token_a |-> "poolA", token_b |-> "poolB", user |-> "user" \o side,
     user_lp |-> "userLP"]

DepositSingleArgs ==
    {GoodSingle(sd) @@ [source_token_amount |-> n, minimum_pool_token_amount |-> m] :
        sd \in Sides, n \in {TradeAmount, 0}, m \in {0, 2 * INITIAL_SWAP_POOL_AMOUNT}}
        \cup AccountFaults(GoodSingle("A") @@
                 [source_token_amount |-> TradeAmount, minimum_pool_token_amount |-> 0])

DepositSingleTokenTypeExactAmountIn ==
    /\ trades < MaxTrades
    /\ \E a \in DepositSingleArgs :
        \E r \in {process_deposit_single_token_type_exact_amount_in(
                      state, swap_info_data(pool, a), ledger, a)} :
            /\ ledger' = r.ledger
            /\ trades' = IF r.result = "Ok" THEN trades + 1 ELSE trades
            /\ last' = [op |-> "DepositSingleTokenTypeExactAmountIn",
                        result |-> r.result, issued |-> r.issued]
            /\ UNCHANGED <<state, written, pool, call>>

WithdrawSingleArgs ==
    {GoodSingle(sd) @@ [destination_token_amount |-> n, maximum_pool_token_amount |-> m] :
        sd \in Sides, n \in {TradeAmount, 0}, m \in {2 * INITIAL_SWAP_POOL_AMOUNT, 0}}
        \cup AccountFaults(GoodSingle("A") @@
                 [destination_token_amount |-> TradeAmount,
                  maximum_pool_token_amount |-> 2 * INITIAL_SWAP_POOL_AMOUNT])

WithdrawSingleTokenTypeExactAmountOut ==
    /\ trades < MaxTrades
    /\ \E a \in WithdrawSingleArgs :
        \E r \in {process_withdraw_single_token_type_exact_amount_out(
                      state, swap_info_data(pool, a), ledger, a)} :
            /\ ledger' = r.ledger
            /\ trades' = IF r.result = "Ok" THEN trades + 1 ELSE trades
            /\ last' = [op |-> "WithdrawSingleTokenTypeExactAmountOut",
                        result |-> r.result, issued |-> r.issued]
            /\ UNCHANGED <<state, written, pool, call>>

\* UpdateGlobalState among the pool operations: requests at the derived
\* state address with the constant-product curve and a schedule at, above or
\* below the floor; `last` keeps the caller and the result.
PoolUpdateArgs ==
    {UpdateArg(AmmStateAddress, s, c, n, OWNER_KEY, INITIAL_SWAP_POOL_AMOUNT,
               Fee(20, 10, 10000), ConstantProductSwapCurve) :
        s \in BOOLEAN, c \in Keys, n \in Keys}
        \cup {UpdateArg(AmmStateAddress, TRUE, c, c, x[1], x[2], x[3],
                        ConstantProductSwapCurve) :
                 c \in Keys,
                 x \in {<<UserKey, INITIAL_SWAP_POOL_AMOUNT, Fee(20, 10, 10000)>>,
                        <<OWNER_KEY, 0, Fee(20, 10, 10000)>>,
                        <<OWNER_KEY, INITIAL_SWAP_POOL_AMOUNT, Fee(21, 11, 10000)>>,
                        <<OWNER_KEY, INITIAL_SWAP_POOL_AMOUNT, Fee(19, 10, 10000)>>}}

UpdateGlobalStateOfPools ==
    \E a \in PoolUpdateArgs :
        \E r \in {process_update_state(state, a)} :
            /\ state' = r.state
            /\ written' = (written \/ r.result = "Ok")
            /\ last' = [op |-> "UpdateGlobalState", result |-> r.result,
                        is_signer |-> a.is_signer,
                        cur_state_owner |-> a.cur_state_owner, issued |-> <<>>]
            /\ UNCHANGED <<pool, ledger, trades, call>>

(***************************************************************************)
(* The trading and liquidity handlers on an initialized pool, with the     *)
(* whole request kept in `last`.                                           *)
(***************************************************************************)
\* The same request with one account replaced by another of its kind.
SubstitutedAccounts(a) ==
    AccountFaults(a)
        \cup {[a EXCEPT !.authority = 1000 + 253],
              [a EXCEPT !.pool_mint = "lpMintUser"],
              [a EXCEPT !.token_program = "OtherProgram"]}

SwapRequests ==
    {[GoodSwap(d[1], d[2]) EXCEPT !.amount_in = n, !.minimum_amount_out = m] :
        d \in {<<"A", "B">>, <<"B", "A">>}, n \in {1000, 0}, m \in {0, 429, 430}}
        \cup {[GoodSwap("A", "B") EXCEPT !.amount_in = 1]}
        \cup SubstitutedAccounts(GoodSwap("A", "B"))
        \cup {[GoodSwap("A", "B") EXCEPT !.swap_source = k] :
                 k \in {"pool2A", "userA", "poolB"}}
        \cup {[GoodSwap("A", "B") EXCEPT !.swap_destination = k] :
                 k \in {"pool2B", "userB", "poolA"}}
        \cup {[GoodSwap("A", "B") EXCEPT !.source = "poolA"],
              [GoodSwap("A", "B") EXCEPT !.destination = "poolB"],
              [GoodSwap("A", "B") EXCEPT !.fixed_fee_wallet = UserKey],
              [GoodSwap("A", "B") EXCEPT !.fixed_fee_account = "feeB"],
              [GoodSwap("A", "B") EXCEPT !.fixed_fee_account = "userA"],
              [GoodSwap("A", "B") EXCEPT !.fixed_fee_wallet = UserKey,
                                         !.fixed_fee_account = "userA"],
              [GoodSwap("B", "A") EXCEPT !.fixed_fee_wallet = UserKey],
              [GoodSwap("B", "A") EXCEPT !.fixed_fee_account = "lpMint"]}

\* What a trading handler leaves behind.
Traded(op, a, r) ==
    /\ ledger' = r.ledger
    /\ trades' = IF r.result = "Ok" THEN trades + 1 ELSE trades
    /\ last' = [op |-> op, result |-> r.result, issued |-> r.issued, args |-> a]
    /\ UNCHANGED <<state, written, pool, call>>

SwapOnPool ==
    /\ trades < MaxTrades
    /\ \E a \in SwapRequests :
        \E r \in {process_swap(state, swap_info_data(pool, a), ledger, a)} :
            Traded("Swap", a, r)

LiquidityFaults(a) ==
    SubstitutedAccounts(a)
        \cup {[a EXCEPT !.token_a = "pool2A"], [a EXCEPT !.token_b = "pool2B"],
              [a EXCEPT !.token_a = "poolB", !.token_b = "poolA"]}

DepositAllRequests ==
    {GoodLiquidity @@ [pool_token_amount |-> p, maximum_token_a_amount |-> m[1],
                       maximum_token_b_amount |-> m[2]] :
        p \in {250000, 0},
        m \in {<<INITIAL_SWAP_POOL_AMOUNT, INITIAL_SWAP_POOL_AMOUNT>>, <<100, 150>>,
               <<99, 150>>, <<100, 149>>, <<0, 0>>}}
        \cup LiquidityFaults(GoodLiquidity @@
                 [pool_token_amount |-> 250000,
                  maximum_token_a_amount |-> INITIAL_SWAP_POOL_AMOUNT,
                  maximum_token_b_amount |-> INITIAL_SWAP_POOL_AMOUNT])
        \cup {[GoodLiquidity EXCEPT !.user_a = "poolA"] @@
                 [pool_token_amount |-> 250000,
                  maximum_token_a_amount |-> INITIAL_SWAP_POOL_AMOUNT,
                  maximum_token_b_amount |-> INITIAL_SWAP_POOL_AMOUNT]}

DepositAllOnPool ==
    /\ trades < MaxTrades
    /\ \E a \in DepositAllRequests :
        \E r \in {process_deposit_all_token_types(state, swap_info_data(pool, a),
                                                   ledger, a)} :
            Traded("DepositAllTokenTypes", a, r)

WithdrawAllRequests ==
    {GoodLiquidity @@ [pool_token_amount |-> p, minimum_token_a_amount |-> m[1],
                       minimum_token_b_amount |-> m[2]] :
        p \in {250000, 2 * INITIAL_SWAP_POOL_AMOUNT, 0},
        m \in {<<0, 0>>, <<100, 150>>, <<101, 150>>, <<100, 151>>, <<0, 1>>}}
        \cup LiquidityFaults(GoodLiquidity @@
                 [pool_token_amount |-> 250000, minimum_token_a_amount |-> 0,
                  minimum_token_b_amount |-> 0])
        \cup {[GoodLiquidity EXCEPT !.user_b = "poolB"] @@
                 [pool_token_amount |-> 250000, minimum_token_a_amount |-> 0,
                  minimum_token_b_amount |-> 0]}

WithdrawAllOnPool ==
    /\ trades < MaxTrades
    /\ \E a \in WithdrawAllRequests :
        \E r \in {process_withdraw_all_token_types(state, swap_info_data(pool, a),
                                                    ledger, a)} :
            Traded("WithdrawAllTokenTypes", a, r)

SingleFaults(a) ==
    LiquidityFaults(a) \cup {[a EXCEPT !.user = "userLP"], [a EXCEPT !.user = "poolA"]}

DepositSingleRequests ==
    {GoodSingle(sd) @@ [source_token_amount |-> n, minimum_pool_token_amount |-> m] :
        sd \in Sides, n \in {100, 0}, m \in {0, 111111, 111112}}
        \cup SingleFaults(GoodSingle("A") @@
                 [source_token_amount |-> 100, minimum_pool_token_amount |-> 0])

DepositSingleOnPool ==
    /\ trades < MaxTrades
    /\ \E a \in DepositSingleRequests :
        \E r \in {process_deposit_single_token_type_exact_amount_in(
                      state, swap_info_data(pool, a), ledger, a)} :
            Traded("DepositSingleTokenTypeExactAmountIn", a, r)

WithdrawSingleRequests ==
    {GoodSingle(sd) @@ [destination_token_amount |-> n, maximum_pool_token_amount |-> m] :
        sd \in Sides, n \in {100, 0, 1000},
        m \in {2 * INITIAL_SWAP_POOL_AMOUNT, 144493, 144492}}
        \cup SingleFaults(GoodSingle("A") @@
                 [destination_token_amount |-> 100,
                  maximum_pool_token_amount |-> 2 * INITIAL_SWAP_POOL_AMOUNT])
        \cup {GoodSingle("A") @@
                 [destination_token_amount |-> 390,
                  maximum_pool_token_amount |-> 2 * INITIAL_SWAP_POOL_AMOUNT]}

WithdrawSingleOnPool ==
    /\ trades < MaxTrades
    /\ \E a \in WithdrawSingleRequests :
        \E r \in {process_withdraw_single_token_type_exact_amount_out(
                      state, swap_info_data(pool, a), ledger, a)} :
            Traded("WithdrawSingleTokenTypeExactAmountOut", a, r)

\* GlobalState as a successful UpdateGlobalState leaves it, the pool of
\* GoodInitialize, and the ledger after its initial mint.
TradeConfigs ==
    {[DefaultState EXCEPT !.fee_owner = o, !.initial_supply = i, !.fees = f] :
        o \in FeeOwnerArgs, i \in SupplyArgs,
        f \in {Fee(20, 10, 10000), Fee(50, 10, 10000)}}

\* The supply of the liquidity mint is what GlobalState held as
\* initial_supply when the pool was initialized; it is 0 when that was 0,
\* also after initial_supply has been set to another value.
MintedSupplies(st) == {0, st.initial_supply}

InitTrade ==
    /\ state \in TradeConfigs
    /\ written = TRUE
    /\ pool = new_pool(GoodInitialize)
    /\ \E minted \in MintedSupplies(state) :
           ledger = [amount |-> [k \in PoolSideKeys |-> InitialAmount(k)],
                     supply |-> [m \in MintKeys |->
                                    IF m = "lpMint" THEN minted ELSE InitialSupply(m)]]
    /\ trades = 0
    /\ last = NoInvocation
    /\ call = NoCall

NextTrade ==
    \/ SwapOnPool
    \/ DepositAllOnPool
    \/ WithdrawAllOnPool
    \/ DepositSingleOnPool
    \/ WithdrawSingleOnPool

SpecTrade == InitTrade /\ [][NextTrade]_vars

(***************************************************************************)
(* Specifications.                                                         *)
(***************************************************************************)
Init ==
    /\ state = EmptyState
    /\ written = FALSE
    /\ pool = EmptyPool
    /\ ledger = [amount |-> [k \in PoolSideKeys |-> InitialAmount(k)],
                 supply |-> [m \in MintKeys |-> InitialSupply(m)]]
    /\ trades = 0
    /\ last = NoInvocation
    /\ call = NoCall

\* The validation functions of constraints.rs applied to bounded inputs.
ApplyValidateFees ==
    /\ \E fees \in FeeDomain :
           call' = [fn |-> "validate_fees", fees |-> fees,
                    swap_curve |-> ConstantProductSwapCurve,
                    result |-> validate_fees(SWAP_CONSTRAINTS, fees)]
    /\ UNCHANGED <<state, written, pool, ledger, trades, last>>

ApplyValidateCurve ==
    /\ \E swap_curve \in SwapCurves :
           call' = [fn |-> "validate_curve", fees |-> ZeroFees,
                    swap_curve |-> swap_curve,
                    result |-> validate_curve(SWAP_CONSTRAINTS, swap_curve)]
    /\ UNCHANGED <<state, written, pool, ledger, trades, last>>

NextValidate == ApplyValidateFees \/ ApplyValidateCurve

SpecValidate == Init /\ [][NextValidate]_vars

\* The administration of GlobalState.
NextGov == UpdateGlobalState

SpecGov == Init /\ [][NextGov]_vars

\* The whole program.
Next ==
    \/ UpdateGlobalStateOfPools
    \/ InitializePool
    \/ Swap
    \/ DepositAllTokenTypes
    \/ WithdrawAllTokenTypes
    \/ DepositSingleTokenTypeExactAmountIn
    \/ WithdrawSingleTokenTypeExactAmountOut

Spec == Init /\ [][Next]_vars

(***************************************************************************)
(* Properties.                                                             *)
(***************************************************************************)
IsUpdate(l) == l.op = "UpdateGlobalState"

\* C1: validate_fees returns Ok exactly when the fixed fee numerator is at
\* least 20, the return fee numerator at least 10 and the denominator is
\* 10000; in every other case it returns InvalidFee.
C1_ValidateFeesFloor ==
    call.fn = "validate_fees" =>
        /\ call.result \in {"Ok", "InvalidFee"}
        /\ call.result = "Ok" <=>
              /\ call.fees.fixed_fee_numerator >= 20
              /\ call.fees.return_fee_numerator >= 10
              /\ call.fees.fee_denominator = 10000

\* The floor schedule itself has been accepted.
C1_Witness ==
    /\ call.fn = "validate_fees"
    /\ call.fees = Fee(20, 10, 10000)
    /\ call.result = "Ok"

\* C2: validate_curve returns Ok exactly when the declared kind and the kind
\* the calculator reports are both allowed kinds; otherwise it returns
\* UnsupportedCurveType, also when only one of two disagreeing kinds is allowed.
C2_ValidateCurveBothKinds ==
    call.fn = "validate_curve" =>
        /\ call.result \in {"Ok", "UnsupportedCurveType"}
        /\ call.result = "Ok" <=>
              /\ call.swap_curve.curve_type \in {"ConstantProduct"}
              /\ get_curve_type(call.swap_curve.calculator) \in {"ConstantProduct"}

\* A curve declared constant-product whose calculator reports another kind
\* has been rejected.
C2_Witness ==
    /\ call.fn = "validate_curve"
    /\ call.swap_curve.curve_type = "ConstantProduct"
    /\ get_curve_type(call.swap_curve.calculator) # "ConstantProduct"
    /\ call.result = "UnsupportedCurveType"

\* C3: whenever GlobalState is initialized, its stored fee schedule is at or
\* above the build-time floor with the floor's denominator, and its stored
\* curve kind is an allowed kind.
C3_StoredConfigAboveFloor ==
    state.is_initialized =>
        /\ state.fees.fixed_fee_numerator >= 20
        /\ state.fees.return_fee_numerator >= 10
        /\ state.fees.fee_denominator = 10000
        /\ state.swap_curve.curve_type \in {"ConstantProduct"}
        /\ get_curve_type(state.swap_curve.calculator) \in {"ConstantProduct"}

\* A schedule below the floor has been offered by the owner and rejected,
\* and the record holds the schedule of an earlier successful update.
C3_Witness ==
    /\ IsUpdate(last)
    /\ last.result = "InvalidFee"
    /\ last.fees = Fee(19, 10, 10000)
    /\ written
    /\ state.fees = Fee(21, 11, 10000)

\* C4: an UpdateGlobalState on the initialized GlobalState record returns Ok
\* only if the caller signs, its key is the stored state_owner, and the fees
\* and curve pass validate_fees, fees.validate, validate_curve and
\* calculator.validate; a caller that does not sign gets InvalidSigner and a
\* signing caller that is not the stored owner gets InvalidStateOwner.
C4_UpdateAuthorized ==
    [][(IsUpdate(last') /\ state.is_initialized /\ last'.state_key = AmmStateAddress) =>
          /\ last'.result = "Ok" =>
                /\ last'.is_signer
                /\ last'.cur_state_owner = state.state_owner
                /\ validate_fees(SWAP_CONSTRAINTS, last'.fees) = "Ok"
                /\ fees_validate(last'.fees) = "Ok"
                /\ validate_curve(SWAP_CONSTRAINTS, last'.swap_curve) = "Ok"
                /\ calculator_validate(last'.swap_curve.calculator) = "Ok"
          /\ ~last'.is_signer => last'.result = "InvalidSigner"
          /\ (last'.is_signer /\ last'.cur_state_owner # state.state_owner)
                => last'.result = "InvalidStateOwner"]_vars

\* A signing caller that is not the owner installed by an earlier update has
\* been rejected.
C4_Witness ==
    /\ IsUpdate(last)
    /\ written
    /\ last.is_signer
    /\ last.cur_state_owner # state.state_owner
    /\ last.result = "InvalidStateOwner"

C6_FirstWriteByDefaultOwner ==
    [][(IsUpdate(last') /\ ~written /\ last'.state_key = AmmStateAddress) =>
          /\ last'.result = "Ok" =>
                (last'.is_signer /\ last'.cur_state_owner = INITIAL_STATE_OWNER)
          /\ (last'.is_signer /\ last'.cur_state_owner # INITIAL_STATE_OWNER)
                => last'.result = "InvalidStateOwner"
          /\ ~written' => state' \in {EmptyState, DefaultState}]_vars

\* Before any successful update, a signing caller other than the default
\* owner has been rejected.
C6_Witness ==
    /\ IsUpdate(last)
    /\ ~written
    /\ last.is_signer
    /\ last.cur_state_owner # INITIAL_STATE_OWNER
    /\ last.result = "InvalidStateOwner"

\* C7: a successful UpdateGlobalState stores the new owner it names; the
\* stored owner changes in no other way; an update of an initialized record
\* succeeds only for a signing caller whose key is the stored owner; and the
\* owner that has just handed over to another key is rejected with
\* InvalidStateOwner.
C7_OwnershipRotation ==
    [][IsUpdate(last') =>
          /\ last'.result = "Ok" => state'.state_owner = last'.new_state_owner
          /\ (state.is_initialized /\ state'.state_owner # state.state_owner)
                => last'.result = "Ok"
          /\ (state.is_initialized /\ last'.result = "Ok")
                => (last'.is_signer /\ last'.cur_state_owner = state.state_owner)
          /\ ( /\ IsUpdate(last) /\ last.result = "Ok"
               /\ last.cur_state_owner # state.state_owner
               /\ last'.cur_state_owner = last.cur_state_owner
               /\ last'.is_signer /\ last'.state_key = AmmStateAddress )
                => last'.result = "InvalidStateOwner"]_vars

\* After the default owner handed over to another key, the default owner has
\* been rejected.
C7_Witness ==
    /\ IsUpdate(last)
    /\ written
    /\ state.state_owner # INITIAL_STATE_OWNER
    /\ last.is_signer
    /\ last.cur_state_owner = INITIAL_STATE_OWNER
    /\ last.state_key = AmmStateAddress
    /\ last.result = "InvalidStateOwner"

IsInitialize(l) == l.op = "InitializePool"

\* C8: InitializePool on an initialized Pool record returns AlreadyInUse
\* whatever else the request holds, and leaves the record and the ledger as
\* they were; no step of any operation changes an initialized Pool record,
\* and the record changes only in a successful InitializePool.
C8_PoolWrittenOnce ==
    [][/\ (IsInitialize(last') /\ pool.is_initialized) =>
             /\ last'.result = "AlreadyInUse"
             /\ last'.issued = <<>>
             /\ pool' = pool
             /\ ledger' = ledger
       /\ pool.is_initialized => pool' = pool
       /\ pool' # pool => (IsInitialize(last') /\ last'.result = "Ok")]_vars

\* A well-formed request of the owner on the initialized record has been
\* rejected.
C8_Witness ==
    /\ IsInitialize(last)
    /\ pool.is_initialized
    /\ last.well_formed
    /\ last.is_signer
    /\ last.cur_state_owner = state.state_owner
    /\ last.result = "AlreadyInUse"

IsPoolOperation(l) ==
    l.op \in {"InitializePool", "Swap", "DepositAllTokenTypes", "WithdrawAllTokenTypes",
              "DepositSingleTokenTypeExactAmountIn",
              "WithdrawSingleTokenTypeExactAmountOut"}

\* The errors of the checks a pool handler makes before it reads GlobalState.
ChecksBeforeState ==
    {"IncorrectProgramId", "UninitializedAccount", "InvalidProgramAddress",
     "InvalidStateAddress"}

C10_InitializeByOwner ==
    [][IsInitialize(last') =>
          /\ last'.result = "Ok" =>
                /\ state.is_initialized
                /\ last'.is_signer
                /\ last'.cur_state_owner = state.state_owner
          /\ (last'.well_formed /\ state.is_initialized /\ ~pool.is_initialized) =>
                /\ ~last'.is_signer => last'.result = "InvalidSigner"
                /\ (last'.is_signer /\ last'.cur_state_owner # state.state_owner)
                      => last'.result = "InvalidOwner"
                /\ (last'.is_signer /\ last'.cur_state_owner = state.state_owner)
                      => last'.result = "Ok"]_vars

\* After the default owner handed over to another key, its well-formed
\* request to initialize the pool has been rejected.
C10_Witness ==
    /\ IsInitialize(last)
    /\ written
    /\ state.state_owner # INITIAL_STATE_OWNER
    /\ ~pool.is_initialized
    /\ last.well_formed
    /\ last.is_signer
    /\ last.cur_state_owner = INITIAL_STATE_OWNER
    /\ last.result = "InvalidOwner"

\* C11: InitializePool returns Ok only if the supplied authority is the
\* address derived from the pool key and the supplied nonce, both pooled
\* asset accounts are owned by it, have distinct mints, no delegate, are not
\* frozen (the test that reports InvalidFreezeAuthority) and have no close
\* authority, the liquidity mint has supply 0, LP_MINT_DECIMALS decimals, no
\* freeze authority and the authority as mint authority, and the destination
\* of the initial mint is not owned by the authority.
C11_InitializePreconditions ==
    [][(IsInitialize(last') /\ last'.result = "Ok") =>
          LET authority == last'.issued[1].authority
              destination == last'.issued[1].to
              token_a == TokenInfo(pool'.token_a)
              token_b == TokenInfo(pool'.token_b)
              pool_mint == MintInfo(pool'.pool_mint)
          IN  /\ Len(last'.issued) = 1
              /\ pool'.token_a \in TokenKeys
              /\ pool'.token_b \in TokenKeys
              /\ pool'.pool_mint \in MintKeys
              /\ destination \in TokenKeys
              /\ authority_id("swap", pool'.nonce).result = "Ok"
              /\ authority = authority_id("swap", pool'.nonce).key
              /\ token_a.owner = authority
              /\ token_b.owner = authority
              /\ token_a.mint # token_b.mint
              /\ ~token_a.delegate /\ ~token_b.delegate
              /\ ~token_a.is_frozen /\ ~token_b.is_frozen
              /\ ~token_a.close_authority /\ ~token_b.close_authority
              /\ MintSupply(ledger, pool'.pool_mint) = 0
              /\ pool_mint.decimals = LP_MINT_DECIMALS
              /\ ~pool_mint.freeze_authority
              /\ pool_mint.mint_authority = authority
              /\ TokenInfo(destination).owner # authority]_vars

\* A pool has just been initialized.
C11_Witness ==
    /\ IsInitialize(last)
    /\ last.result = "Ok"
    /\ pool.is_initialized
    /\ Len(last.issued) = 1

\* C12: a successful InitializePool issues one ledger mutation, a mint of
\* GlobalState.initial_supply liquidity tokens of the pool's mint to the
\* destination of the request, and leaves a Pool record that is initialized
\* and holds the nonce, the two asset accounts and their mints, the liquidity
\* mint, the venue and the token program of the request.
C12_InitializeEffect ==
    [][(IsInitialize(last') /\ last'.result = "Ok") =>
          /\ Len(last'.issued) = 1
          /\ last'.issued[1].kind = "mint_to"
          /\ last'.issued[1].from = pool'.pool_mint
          /\ last'.issued[1].amount = state.initial_supply
          /\ ledger'.amount = ledger.amount
          /\ \A m \in MintKeys :
                ledger'.supply[m] = IF m = pool'.pool_mint
                                    THEN ledger.supply[m] + state.initial_supply
                                    ELSE ledger.supply[m]
          /\ ~pool.is_initialized
          /\ pool'.is_initialized
          /\ pool'.token_a_mint = TokenInfo(pool'.token_a).mint
          /\ pool'.token_b_mint = TokenInfo(pool'.token_b).mint
          /\ last'.well_formed =>
                /\ last'.issued[1].to = "userLP"
                /\ last'.issued[1].authority = PoolAuthority
                /\ pool' = [is_initialized |-> TRUE, nonce |-> PoolNonce,
                            amm_id |-> "Amm", dex_program_id |-> "Dex",
                            market_id |-> "Market", token_program_id |-> TokenProgram,
                            token_a |-> "poolA", token_b |-> "poolB",
                            pool_mint |-> "lpMint", token_a_mint |-> "mintA",
                            token_b_mint |-> WSOL_MINT_ADDRESS]]_vars

\* The well-formed request has succeeded and the configured initial supply
\* has been minted.
C12_Witness ==
    /\ IsInitialize(last)
    /\ last.result = "Ok"
    /\ last.well_formed
    /\ state.initial_supply = INITIAL_SWAP_POOL_AMOUNT
    /\ ledger.supply["lpMint"] = INITIAL_SWAP_POOL_AMOUNT
    /\ pool.token_a = "poolA"

IsTrade(l) ==
    l.op \in {"Swap", "DepositAllTokenTypes", "WithdrawAllTokenTypes",
              "DepositSingleTokenTypeExactAmountIn",
              "WithdrawSingleTokenTypeExactAmountOut"}

\* The authority derived from the key of the pool account and the nonce
\* stored in the record behind it.
DerivedAuthority(pl, a) == authority_id(a.swap, swap_info_data(pl, a).nonce)

\* The errors of the checks a handler makes before it compares the
\* authority.
BeforeAuthority(op) ==
    IF op = "Swap" THEN {"IncorrectProgramId", "UninitializedAccount"}
    ELSE {"UninitializedAccount", "InvalidStateAddress", "NotInitializedState",
          "UnsupportedCurveOperation", "IncorrectProgramId"}
         \cup (IF op \in {"DepositAllTokenTypes", "WithdrawAllTokenTypes"} THEN {}
               ELSE {"IncorrectTokenProgramId", "ExpectedAccount", "IncorrectSwapAccount"})

\* C14: a trading or liquidity handler returns Ok only with the authority
\* derived from the pool key and the nonce stored in the Pool record; with
\* another authority it returns InvalidProgramAddress, unless a check made
\* before the comparison has failed, and it issues no ledger mutation.
C14_AuthorityRederived ==
    [][IsTrade(last') =>
          /\ last'.result = "Ok" =>
                /\ DerivedAuthority(pool, last'.args).result = "Ok"
                /\ last'.args.authority = DerivedAuthority(pool, last'.args).key
          /\ last'.args.authority # DerivedAuthority(pool, last'.args).key =>
                /\ last'.result \in {"InvalidProgramAddress"} \cup BeforeAuthority(last'.op)
                /\ last'.issued = <<>>
                /\ ledger' = ledger
          /\ (/\ last'.args.authority # DerivedAuthority(pool, last'.args).key
              /\ last'.args.swap_owner = ProgramId
              /\ last'.args.state_key = AmmStateAddress
              /\ last'.op \in {"Swap", "DepositAllTokenTypes", "WithdrawAllTokenTypes"})
                => last'.result = "InvalidProgramAddress"]_vars

\* A withdrawal that names the address derived with another nonce has been
\* rejected.
C14_Witness ==
    /\ last.op = "WithdrawAllTokenTypes"
    /\ last.args.authority = create_program_address("swap", 253)
    /\ last.result = "InvalidProgramAddress"
    /\ last.issued = <<>>

IsSingle(op) ==
    op \in {"DepositSingleTokenTypeExactAmountIn", "WithdrawSingleTokenTypeExactAmountOut"}

\* The request passes every check its handler makes before it compares
\* the pool-side accounts with the record rec.
ReachesComparison(op, st, rec, a) ==
    /\ a.swap_owner = ProgramId
    /\ SwapVersion_unpack(rec) = "Ok"
    /\ authority_id(a.swap, rec.nonce).result = "Ok"
    /\ a.authority = authority_id(a.swap, rec.nonce).key
    /\ check_state_account(a.state_key) = "Ok"
    /\ unpack_from_slice(st).is_initialized
    /\ IsSingle(op) =>
          /\ unpack_token_account(a.user, rec.token_program_id) = "Ok"
          /\ unpack_token_account(a.token_a, rec.token_program_id) = "Ok"
          /\ unpack_token_account(a.token_b, rec.token_program_id) = "Ok"
          /\ single_trade_direction(a) # "none"

\* A pool-side asset account of the request is not one the record holds.
SubstitutedAsset(op, rec, a) ==
    IF op = "Swap"
    THEN \/ a.swap_source \notin {rec.token_a, rec.token_b}
         \/ a.swap_destination \notin {rec.token_a, rec.token_b}
    ELSE a.token_a # rec.token_a \/ a.token_b # rec.token_b

\* The pool-side asset accounts of the request are those of the record; in
\* Swap, the two of them in either order.
PoolSideAccounts(op, rec, a) ==
    IF op = "Swap"
    THEN /\ {a.swap_source, a.swap_destination} = {rec.token_a, rec.token_b}
         /\ a.swap_source # a.swap_destination
    ELSE a.token_a = rec.token_a /\ a.token_b = rec.token_b

\* process_swap compares the user's accounts with the pool's before it
\* compares the liquidity mint.
SwapUserAccountsDiffer(op, a) ==
    op = "Swap" => a.swap_source # a.source /\ a.swap_destination # a.destination

\* C15: a trading or liquidity handler returns Ok only when the pool-side
\* asset accounts, the liquidity mint and the token program of the request
\* are those of the Pool record (in Swap the two distinct asset accounts in
\* either order); when the earlier checks pass, a substituted asset account
\* gets IncorrectSwapAccount, then a substituted liquidity mint
\* IncorrectPoolMint, then a substituted token program
\* IncorrectTokenProgramId.
C15_AccountsOfTheRecord ==
    [][IsTrade(last') =>
        LET a == last'.args
            op == last'.op
            rec == swap_info_data(pool, a)
        IN  /\ last'.result = "Ok" =>
                  /\ PoolSideAccounts(op, rec, a)
                  /\ a.pool_mint = rec.pool_mint
                  /\ a.token_program = rec.token_program_id
            /\ (ReachesComparison(op, state, rec, a) /\ SubstitutedAsset(op, rec, a))
                  => last'.result = "IncorrectSwapAccount"
            /\ (/\ ReachesComparison(op, state, rec, a)
                /\ PoolSideAccounts(op, rec, a)
                /\ SwapUserAccountsDiffer(op, a)
                /\ a.pool_mint # rec.pool_mint)
                  => last'.result = "IncorrectPoolMint"
            /\ (/\ ReachesComparison(op, state, rec, a)
                /\ PoolSideAccounts(op, rec, a)
                /\ SwapUserAccountsDiffer(op, a)
                /\ a.pool_mint = rec.pool_mint
                /\ a.token_program # rec.token_program_id)
                  => last'.result = "IncorrectTokenProgramId"]_vars

\* A swap out of an asset account that is not the pool's, though of the
\* right mint, has been rejected.
C15_Witness ==
    /\ last.op = "Swap"
    /\ last.args.swap_source = "pool2A"
    /\ TokenInfo("pool2A").mint = TokenInfo(pool.token_a).mint
    /\ last.result = "IncorrectSwapAccount"
    /\ last.issued = <<>>

\* The direction of a swap on the record rec: AtoB when the pool-source
\* account of the request is the record's asset A account.
DirectionOf(rec, a) == IF a.swap_source = rec.token_a THEN "AtoB" ELSE "BtoA"

\* The quote of the curve for a swap request, with the balance of the source
\* side of its direction as reserve_in and the balance of the other side as
\* reserve_out.
QuoteOf(st, rec, lg, a) ==
    LET dir == DirectionOf(rec, a)
        reserve_in == TokenAmount(lg, IF dir = "AtoB" THEN rec.token_a ELSE rec.token_b)
        reserve_out == TokenAmount(lg, IF dir = "AtoB" THEN rec.token_b ELSE rec.token_a)
    IN  swap(a.amount_in, reserve_in, reserve_out, dir, st.fees)

\* C16: in Swap the direction is AtoB when the pool-source account of the
\* request is the Pool's asset A account and BtoA when it is the asset B
\* account; the curve is given the balance of that account as reserve_in
\* and the balance of the other as reserve_out, so a swap that passes the
\* checks succeeds exactly when that quote exists and meets the minimum,
\* and then debits into the source side and pays the quoted amount out of
\* the other side.
C16_DirectionFromPoolSource ==
    [][(last'.op = "Swap") =>
        LET a == last'.args
            rec == swap_info_data(pool, a)
            dir == DirectionOf(rec, a)
            side_in == IF dir = "AtoB" THEN rec.token_a ELSE rec.token_b
            side_out == IF dir = "AtoB" THEN rec.token_b ELSE rec.token_a
            quote == QuoteOf(state, rec, ledger, a)
        IN  /\ swap_checks(state, rec, a) = "Ok" =>
                  /\ a.swap_source = side_in
                  /\ a.swap_destination = side_out
                  /\ last'.result = "Ok"
                        <=> (~quote.none
                             /\ quote.destination_amount_swapped >= a.minimum_amount_out)
            /\ last'.result = "Ok" =>
                  /\ swap_checks(state, rec, a) = "Ok"
                  /\ last'.issued[1].to = side_in
                  /\ last'.issued[1].amount = quote.source_amount_swapped - quote.owner_fee
                  /\ last'.issued[3].from = side_out
                  /\ last'.issued[3].amount = quote.destination_amount_swapped
                  /\ TokenAmount(ledger', side_in)
                        = TokenAmount(ledger, side_in) + last'.issued[1].amount
                  /\ TokenAmount(ledger', side_out)
                        = TokenAmount(ledger, side_out) - last'.issued[3].amount]_vars

\* A swap from B to A has paid out of the asset A account the amount quoted
\* on the reserves 600 in, 400 out, which the reserves taken the other way
\* round would not give.
C16_Witness ==
    /\ last.op = "Swap"
    /\ last.result = "Ok"
    /\ last.args.swap_source = pool.token_b
    /\ last.args.amount_in = 1000
    /\ last.issued[3].from = pool.token_a
    /\ last.issued[3].amount = 250
    /\ swap(1000, 400, 600, "BtoA", state.fees).destination_amount_swapped # 250

\* The checks a trading handler makes before it consults the curve.
TradeChecks(op, st, rec, a) ==
    IF op = "Swap" THEN swap_checks(st, rec, a)
    ELSE IF op = "DepositAllTokenTypes" THEN liquidity_checks(st, rec, a, TRUE)
    ELSE IF op = "WithdrawAllTokenTypes" THEN liquidity_checks(st, rec, a, FALSE)
    ELSE single_checks(st, rec, a)

\* The amounts DepositAllTokenTypes computes for a request.
DepositAllAmounts(st, lg, a) ==
    LET supply == MintSupply(lg, a.pool_mint)
    IN  pool_tokens_to_trading_tokens(
            IF supply > 0 THEN a.pool_token_amount ELSE st.initial_supply,
            IF supply > 0 THEN supply ELSE st.initial_supply,
            TokenAmount(lg, a.token_a), TokenAmount(lg, a.token_b), "Ceiling")

\* The amounts WithdrawAllTokenTypes computes for a request: the amount to
\* burn is capped to leave MIN_LP_SUPPLY, each payout to the reserve.
WithdrawAllAmounts(lg, a) ==
    LET supply == MintSupply(lg, a.pool_mint)
        results == pool_tokens_to_trading_tokens(
                       Min(a.pool_token_amount, supply - MIN_LP_SUPPLY), supply,
                       TokenAmount(lg, a.token_a), TokenAmount(lg, a.token_b), "Floor")
    IN  [none |-> results.none,
         token_a_amount |-> Min(TokenAmount(lg, a.token_a), results.token_a_amount),
         token_b_amount |-> Min(TokenAmount(lg, a.token_b), results.token_b_amount)]

\* The liquidity tokens DepositSingleTokenTypeExactAmountIn computes.
DepositSingleAmount(st, lg, a) ==
    LET supply == MintSupply(lg, a.pool_mint)
    IN  IF supply > 0
        THEN deposit_single_token_type(a.source_token_amount, TokenAmount(lg, a.token_a),
                 TokenAmount(lg, a.token_b), supply, single_trade_direction(a), st.fees)
        ELSE [none |-> FALSE, amount |-> st.initial_supply]

\* The liquidity tokens WithdrawSingleTokenTypeExactAmountOut computes.
WithdrawSingleAmount(st, lg, a) ==
    withdraw_single_token_type_exact_out(a.destination_token_amount,
        TokenAmount(lg, a.token_a), TokenAmount(lg, a.token_b),
        MintSupply(lg, a.pool_mint), single_trade_direction(a), st.fees)

\* The amount the issued instructions move out of the account from.
PaidFrom(issued, from) ==
    LET RECURSIVE Sum(_)
        Sum(i) == IF i = 0 THEN 0
                  ELSE Sum(i - 1) + (IF issued[i].kind = "transfer" /\ issued[i].from = from
                                     THEN issued[i].amount ELSE 0)
    IN  Sum(Len(issued))

\* The request has been rejected for its bound or for a zero amount, and
\* nothing was issued.
RejectedUnadjusted(l, lg1, lg2) ==
    /\ l.result \in {"ExceededSlippage", "ZeroTradingTokens", "CalculationFailure"}
    /\ l.issued = <<>>
    /\ lg2 = lg1

\* C17: a handler that succeeds has issued amounts within the caller's
\* bound: Swap pays out at least minimum_amount_out, DepositAllTokenTypes
\* takes at most maximum_token_a_amount and maximum_token_b_amount,
\* WithdrawAllTokenTypes pays at least minimum_token_a_amount and
\* minimum_token_b_amount, the single-sided deposit mints at least
\* minimum_pool_token_amount and the single-sided withdrawal burns at most
\* maximum_pool_token_amount. The amounts issued are the computed ones, and
\* a request whose computed amounts are non-zero and violate the bound is
\* rejected with ExceededSlippage and issues nothing.
C17_SlippageBounds ==
    [][IsTrade(last') =>
        LET a == last'.args
            op == last'.op
            ok == last'.result = "Ok"
            rec == swap_info_data(pool, a)
            passes == TradeChecks(op, state, rec, a) = "Ok"
            quote == QuoteOf(state, rec, ledger, a)
            dep == DepositAllAmounts(state, ledger, a)
            wd == WithdrawAllAmounts(ledger, a)
            ds == DepositSingleAmount(state, ledger, a)
            ws == WithdrawSingleAmount(state, ledger, a)
        IN  /\ op = "Swap" =>
                  /\ ok => /\ last'.issued[3].amount >= a.minimum_amount_out
                            /\ last'.issued[3].amount = quote.destination_amount_swapped
                  /\ (/\ passes
                      /\ ~quote.none
                      /\ quote.destination_amount_swapped < a.minimum_amount_out)
                        => /\ last'.result = "ExceededSlippage"
                           /\ RejectedUnadjusted(last', ledger, ledger')
            /\ op = "DepositAllTokenTypes" =>
                  /\ ok => /\ last'.issued[1].amount <= a.maximum_token_a_amount
                            /\ last'.issued[2].amount <= a.maximum_token_b_amount
                            /\ last'.issued[1].amount = dep.token_a_amount
                            /\ last'.issued[2].amount = dep.token_b_amount
                  /\ (/\ passes
                      /\ ~dep.none
                      /\ \/ dep.token_a_amount > a.maximum_token_a_amount
                         \/ dep.token_b_amount > a.maximum_token_b_amount)
                        => /\ RejectedUnadjusted(last', ledger, ledger')
                           /\ (dep.token_a_amount > 0 /\ dep.token_b_amount > 0)
                                 => last'.result = "ExceededSlippage"
            /\ op = "WithdrawAllTokenTypes" =>
                  /\ ok => /\ PaidFrom(last'.issued, a.token_a) >= a.minimum_token_a_amount
                            /\ PaidFrom(last'.issued, a.token_b) >= a.minimum_token_b_amount
                            /\ PaidFrom(last'.issued, a.token_a) = wd.token_a_amount
                            /\ PaidFrom(last'.issued, a.token_b) = wd.token_b_amount
                  /\ (/\ passes
                      /\ ~wd.none
                      /\ \/ wd.token_a_amount < a.minimum_token_a_amount
                         \/ wd.token_b_amount < a.minimum_token_b_amount)
                        => /\ RejectedUnadjusted(last', ledger, ledger')
                           /\ (/\ wd.token_a_amount > 0
                               /\ wd.token_b_amount > 0
                               /\ MintSupply(ledger, a.pool_mint) >= MIN_LP_SUPPLY)
                                 => last'.result = "ExceededSlippage"
            /\ op = "DepositSingleTokenTypeExactAmountIn" =>
                  /\ ok => /\ last'.issued[2].kind = "mint_to"
                            /\ last'.issued[2].amount >= a.minimum_pool_token_amount
                            /\ last'.issued[2].amount = ds.amount
                  /\ (passes /\ ~ds.none /\ ds.amount < a.minimum_pool_token_amount)
                        => /\ last'.result = "ExceededSlippage"
                           /\ RejectedUnadjusted(last', ledger, ledger')
            /\ op = "WithdrawSingleTokenTypeExactAmountOut" =>
                  /\ ok => /\ last'.issued[1].kind = "burn"
                            /\ last'.issued[1].amount <= a.maximum_pool_token_amount
                            /\ last'.issued[1].amount = ws.amount
                  /\ (passes /\ ~ws.none /\ ws.amount > a.maximum_pool_token_amount)
                        => /\ last'.result = "ExceededSlippage"
                           /\ RejectedUnadjusted(last', ledger, ledger')]_vars

\* A withdrawal of a quarter of the supply has paid exactly the two minimum
\* amounts the caller named.
C17_Witness ==
    /\ last.op = "WithdrawAllTokenTypes"
    /\ last.result = "Ok"
    /\ last.args.minimum_token_a_amount = 100
    /\ last.args.minimum_token_b_amount = 150
    /\ PaidFrom(last.issued, last.args.token_a) = 100
    /\ PaidFrom(last.issued, last.args.token_b) = 150

\* The amount a handler computes for the request is zero: the curve gives
\* no trade, or an amount it gives is 0.
ZeroComputed(op, st, rec, lg, a) ==
    IF op = "Swap" THEN QuoteOf(st, rec, lg, a).none
    ELSE IF op = "DepositAllTokenTypes"
        THEN \/ DepositAllAmounts(st, lg, a).none
             \/ DepositAllAmounts(st, lg, a).token_a_amount = 0
             \/ DepositAllAmounts(st, lg, a).token_b_amount = 0
    ELSE IF op = "WithdrawAllTokenTypes"
        THEN /\ MintSupply(lg, a.pool_mint) >= MIN_LP_SUPPLY
             /\ \/ WithdrawAllAmounts(lg, a).none
                \/ WithdrawAllAmounts(lg, a).token_a_amount = 0
                \/ WithdrawAllAmounts(lg, a).token_b_amount = 0
    ELSE IF op = "DepositSingleTokenTypeExactAmountIn"
        THEN DepositSingleAmount(st, lg, a).none \/ DepositSingleAmount(st, lg, a).amount = 0
    ELSE WithdrawSingleAmount(st, lg, a).none \/ WithdrawSingleAmount(st, lg, a).amount = 0

\* C18: in every handler a request that passes the checks and whose
\* computed amount is zero is rejected with ZeroTradingTokens, whatever the
\* caller's slippage bound, and never with ExceededSlippage.
C18_ZeroNeverSlippage ==
    [][(/\ IsTrade(last')
        /\ TradeChecks(last'.op, state, swap_info_data(pool, last'.args), last'.args) = "Ok"
        /\ ZeroComputed(last'.op, state, swap_info_data(pool, last'.args), ledger,
                        last'.args))
          => last'.result = "ZeroTradingTokens"]_vars

\* C19: a Swap that passes the checks with amount_in = 0, or for which the
\* curve computes no destination amount, returns ZeroTradingTokens for every
\* minimum_amount_out and issues no ledger mutation; no Swap with
\* amount_in = 0 succeeds or moves a token.
C19_ZeroSwap ==
    [][(last'.op = "Swap") =>
        LET a == last'.args
            rec == swap_info_data(pool, a)
            quote == QuoteOf(state, rec, ledger, a)
        IN  /\ (swap_checks(state, rec, a) = "Ok" /\ (a.amount_in = 0 \/ quote.none))
                  => /\ last'.result = "ZeroTradingTokens"
                     /\ last'.issued = <<>>
                     /\ ledger' = ledger
            /\ a.amount_in = 0
                  => /\ last'.result # "Ok"
                     /\ last'.issued = <<>>
                     /\ ledger' = ledger]_vars

\* A swap of nothing that asks for at least 430 has been rejected for the
\* zero amount, not for the bound.
C19_Witness ==
    /\ last.op = "Swap"
    /\ last.args.amount_in = 0
    /\ last.args.minimum_amount_out = 430
    /\ last.result = "ZeroTradingTokens"
    /\ last.issued = <<>>

\* The instruction m pays the protocol fee of the swap request a: a native
\* transfer from the user's authority to the fee wallet when the source
\* asset is the wrapped native asset, a token transfer from the user's
\* source account to the fee account otherwise.
IsFeePayment(m, a) ==
    IF TokenInfo(a.swap_source).mint = WSOL_MINT_ADDRESS
    THEN /\ m.kind = "system_transfer"
         /\ m.from = a.user_transfer_authority
         /\ m.to = a.fixed_fee_wallet
    ELSE /\ m.kind = "transfer"
         /\ m.from = a.source
         /\ m.to = a.fixed_fee_account
         /\ m.authority = a.user_transfer_authority

\* C20: a successful Swap issues exactly three ledger mutations, in this
\* order: the debit of the user's source account into the pool's source
\* account, the payment of the protocol fee to the fee recipient, the
\* credit of the user's destination account from the pool's destination
\* account; whatever a Swap issues, a payout is third, after the debit and
\* the fee payment.
C20_SwapMutationOrder ==
    [][(last'.op = "Swap") =>
        LET a == last'.args
            issued == last'.issued
            quote == QuoteOf(state, swap_info_data(pool, a), ledger, a)
            IsDebit(m) == /\ m.kind = "transfer"
                          /\ m.from = a.source
                          /\ m.to = a.swap_source
                          /\ m.authority = a.user_transfer_authority
            IsPayout(m) == /\ m.kind = "transfer"
                           /\ m.from = a.swap_destination
                           /\ m.to = a.destination
                           /\ m.authority = a.authority
        IN  /\ last'.result = "Ok" =>
                  /\ Len(issued) = 3
                  /\ IsDebit(issued[1])
                  /\ issued[1].amount = a.amount_in - quote.owner_fee
                  /\ IsFeePayment(issued[2], a)
                  /\ issued[2].amount = quote.owner_fee
                  /\ IsPayout(issued[3])
                  /\ issued[3].amount = quote.destination_amount_swapped
            /\ \A i \in 1..Len(issued) :
                  IsPayout(issued[i]) =>
                      /\ i = 3
                      /\ IsDebit(issued[1])
                      /\ IsFeePayment(issued[2], a)]_vars

\* A swap of 1000 of the wrapped native asset has debited 998, paid the fee
\* of 2 as a native transfer and then paid out 250.
C20_Witness ==
    /\ last.op = "Swap"
    /\ last.result = "Ok"
    /\ Len(last.issued) = 3
    /\ last.issued[1].amount = 998
    /\ last.issued[2].kind = "system_transfer"
    /\ last.issued[2].amount = 2
    /\ last.issued[3].amount = 250

\* The positions of the native transfers among the instructions issued.
NativeTransfers(issued) == {i \in 1..Len(issued) : issued[i].kind = "system_transfer"}

\* The positions of the token transfers out of the user's source account of
\* the swap request a that do not go into the pool.
TokenFeeTransfers(issued, a) ==
    {i \in 1..Len(issued) : /\ issued[i].kind = "transfer"
                            /\ issued[i].from = a.source
                            /\ issued[i].to # a.swap_source}

\* C21: a successful Swap issues exactly one fee payment: a native transfer
\* from the user's authority to the fee wallet if and only if the mint of
\* the pool's source account is the wrapped native mint, and otherwise a
\* token transfer from the user's source account to the fee token account.
C21_FeePaymentKind ==
    [][(last'.op = "Swap" /\ last'.result = "Ok") =>
        LET a == last'.args
            issued == last'.issued
            native == NativeTransfers(issued)
            token == TokenFeeTransfers(issued, a)
            wrapped == TokenInfo(a.swap_source).mint = WSOL_MINT_ADDRESS
        IN  /\ Cardinality(native) + Cardinality(token) = 1
            /\ wrapped <=> native # {}
            /\ ~wrapped <=> token # {}
            /\ \A i \in native : /\ issued[i].from = a.user_transfer_authority
                                  /\ issued[i].to = a.fixed_fee_wallet
                                  /\ a.fixed_fee_wallet = state.fee_owner
            /\ \A i \in token : /\ issued[i].to = a.fixed_fee_account
                                 /\ TokenInfo(a.fixed_fee_account).owner = state.fee_owner
                                 /\ TokenInfo(a.fixed_fee_account).mint
                                       = TokenInfo(a.swap_source).mint]_vars

\* A swap of 1000 of the asset that is not the wrapped native asset has paid
\* its fee of 2 as a token transfer to the fee account, and no native
\* transfer.
C21_Witness ==
    /\ last.op = "Swap"
    /\ last.result = "Ok"
    /\ TokenInfo(last.args.swap_source).mint # WSOL_MINT_ADDRESS
    /\ NativeTransfers(last.issued) = {}
    /\ TokenFeeTransfers(last.issued, last.args) = {2}
    /\ last.issued[2].to = "feeA"
    /\ last.issued[2].amount = 2

\* The product of the balances of the two asset accounts of the pool.
ReserveProduct(lg, pl) == TokenAmount(lg, pl.token_a) * TokenAmount(lg, pl.token_b)

\* C22: after every successful Swap the product of the two reserves, taken
\* after the swap's ledger mutations (the source side grown by the amount
\* swapped less the protocol fee, the destination side reduced by the
\* payout), is at least the product before it.
C22_ProductNeverDecreases ==
    [][(last'.op = "Swap" /\ last'.result = "Ok") =>
        LET a == last'.args
            quote == QuoteOf(state, pool, ledger, a)
        IN  /\ TokenAmount(ledger', a.swap_source)
                  = TokenAmount(ledger, a.swap_source)
                      + quote.source_amount_swapped - quote.owner_fee
            /\ TokenAmount(ledger', a.swap_destination)
                  = TokenAmount(ledger, a.swap_destination)
                      - quote.destination_amount_swapped
            /\ ReserveProduct(ledger', pool) >= ReserveProduct(ledger, pool)]_vars

(***************************************************************************)
(* A deposit of both assets followed by a withdrawal, on pools with        *)
(* several reserves and supplies of the liquidity mint.                    *)
(***************************************************************************)
MaxRoundTripSteps == 2

RoundTripReserves == {<<400, 600>>, <<7, 13>>, <<1, 1000>>}

\* Supplies of the liquidity mint: the default initial supply, one that
\* divides nothing evenly, and one below MIN_LP_SUPPLY.
RoundTripSupplies == {INITIAL_SWAP_POOL_AMOUNT, 100003, 50000}

RoundTripAmounts == {1, 3, 70000, 250000}

DepositForRoundTrip ==
    /\ trades < MaxRoundTripSteps
    /\ ~(last.op = "DepositAllTokenTypes" /\ last.result = "Ok")
    /\ ~(last.op = "WithdrawAllTokenTypes" /\ last.result # "Ok")
    /\ \E p \in RoundTripAmounts :
        LET a == GoodLiquidity @@
                     [pool_token_amount |-> p,
                      maximum_token_a_amount |-> INITIAL_SWAP_POOL_AMOUNT,
                      maximum_token_b_amount |-> INITIAL_SWAP_POOL_AMOUNT]
        IN  \E r \in {process_deposit_all_token_types(state, swap_info_data(pool, a),
                                                       ledger, a)} :
                Traded("DepositAllTokenTypes", a, r)

WithdrawAfterDeposit ==
    /\ trades < MaxRoundTripSteps
    /\ last.op = "DepositAllTokenTypes"
    /\ last.result = "Ok"
    /\ \E p \in RoundTripAmounts :
        LET a == GoodLiquidity @@
                     [pool_token_amount |-> p, minimum_token_a_amount |-> 0,
                      minimum_token_b_amount |-> 0]
        IN  \E r \in {process_withdraw_all_token_types(state, swap_info_data(pool, a),
                                                        ledger, a)} :
                Traded("WithdrawAllTokenTypes", a, r)

InitRoundTrip ==
    /\ state \in TradeConfigs
    /\ written = TRUE
    /\ pool = new_pool(GoodInitialize)
    /\ \E reserves \in RoundTripReserves, minted \in RoundTripSupplies :
           ledger = [amount |-> [k \in PoolSideKeys |->
                                    IF k = "poolA" THEN reserves[1]
                                    ELSE IF k = "poolB" THEN reserves[2]
                                    ELSE InitialAmount(k)],
                     supply |-> [m \in MintKeys |->
                                    IF m = "lpMint" THEN minted ELSE InitialSupply(m)]]
    /\ trades = 0
    /\ last = NoInvocation
    /\ call = NoCall

NextRoundTrip == DepositForRoundTrip \/ WithdrawAfterDeposit

SpecRoundTrip == InitRoundTrip /\ [][NextRoundTrip]_vars

\* C23: on a pool whose liquidity mint has a non-zero supply, a successful
\* DepositAllTokenTypes of p liquidity tokens immediately followed by a
\* successful WithdrawAllTokenTypes of the same p pays back at most the
\* amount of asset A and at most the amount of asset B the deposit took.
C23_DepositThenWithdraw ==
    [][(/\ last.op = "DepositAllTokenTypes"
        /\ last.result = "Ok"
        /\ MintSupply(ledger, last.args.pool_mint) - last.issued[3].amount > 0
        /\ last'.op = "WithdrawAllTokenTypes"
        /\ last'.result = "Ok"
        /\ last'.args.pool_token_amount = last.args.pool_token_amount)
          => /\ PaidFrom(last'.issued, last'.args.token_a) <= last.issued[1].amount
             /\ PaidFrom(last'.issued, last'.args.token_b) <= last.issued[2].amount
             /\ TokenAmount(ledger', pool.token_a)
                   >= TokenAmount(ledger, pool.token_a) - last.issued[1].amount
             /\ TokenAmount(ledger', pool.token_b)
                   >= TokenAmount(ledger, pool.token_b) - last.issued[2].amount]_vars

\* A deposit of 70000 liquidity tokens on reserves 400 and 600 with supply
\* 100003 took 280 and 420; the withdrawal of the same 70000 has paid back
\* 279 and 419, and the supply is what it was.
C23_Witness ==
    /\ last.op = "WithdrawAllTokenTypes"
    /\ last.result = "Ok"
    /\ trades = 2
    /\ last.args.pool_token_amount = 70000
    /\ MintSupply(ledger, "lpMint") = 100003
    /\ PaidFrom(last.issued, "poolA") = 279
    /\ PaidFrom(last.issued, "poolB") = 419
    /\ TokenAmount(ledger, "poolA") = 401
    /\ TokenAmount(ledger, "poolB") = 601

\* The liquidity-token amount and the supply a handler passes to
\* pool_tokens_to_trading_tokens for the request a.
ConversionInputs(op, st, lg, a) ==
    LET supply == MintSupply(lg, a.pool_mint)
    IN  IF op = "DepositAllTokenTypes"
        THEN [pool_tokens |-> IF supply > 0 THEN a.pool_token_amount ELSE st.initial_supply,
              pool_supply |-> IF supply > 0 THEN supply ELSE st.initial_supply]
        ELSE [pool_tokens |-> Min(a.pool_token_amount, supply - MIN_LP_SUPPLY),
              pool_supply |-> supply]

\* C24: DepositAllTokenTypes takes the amounts of the Ceiling conversion of
\* its liquidity tokens and WithdrawAllTokenTypes pays those of the Floor
\* conversion (each capped to the reserve), and on the inputs of either
\* handler the Ceiling conversion gives a token_a_amount and a
\* token_b_amount at least those of the Floor conversion.
C24_CeilingAtLeastFloor ==
    [][(last'.op \in {"DepositAllTokenTypes", "WithdrawAllTokenTypes"}) =>
        LET a == last'.args
            in == ConversionInputs(last'.op, state, ledger, a)
            reserve_a == TokenAmount(ledger, a.token_a)
            reserve_b == TokenAmount(ledger, a.token_b)
            ceiling == pool_tokens_to_trading_tokens(in.pool_tokens, in.pool_supply,
                           reserve_a, reserve_b, "Ceiling")
            floor == pool_tokens_to_trading_tokens(in.pool_tokens, in.pool_supply,
                         reserve_a, reserve_b, "Floor")
        IN  /\ in.pool_tokens >= 0 =>
                  /\ ceiling.none = floor.none
                  /\ ceiling.token_a_amount >= floor.token_a_amount
                  /\ ceiling.token_b_amount >= floor.token_b_amount
            /\ (last'.op = "DepositAllTokenTypes" /\ last'.result = "Ok") =>
                  /\ last'.issued[1].amount = ceiling.token_a_amount
                  /\ last'.issued[2].amount = ceiling.token_b_amount
            /\ (last'.op = "WithdrawAllTokenTypes" /\ last'.result = "Ok") =>
                  /\ PaidFrom(last'.issued, a.token_a) = Min(reserve_a, floor.token_a_amount)
                  /\ PaidFrom(last'.issued, a.token_b)
                        = Min(reserve_b, floor.token_b_amount)]_vars

\* A deposit of 70000 liquidity tokens on reserves 400 and 600 with supply
\* 100003 has taken 280 and 420, where the Floor conversion gives 279 and
\* 419.
C24_Witness ==
    /\ last.op = "DepositAllTokenTypes"
    /\ last.result = "Ok"
    /\ last.args.pool_token_amount = 70000
    /\ MintSupply(ledger, "lpMint") = 170003
    /\ last.issued[1].amount = 280
    /\ last.issued[2].amount = 420
    /\ pool_tokens_to_trading_tokens(70000, 100003, 400, 600, "Floor").token_a_amount = 279
    /\ pool_tokens_to_trading_tokens(70000, 100003, 400, 600, "Floor").token_b_amount = 419

\* C25: a WithdrawAllTokenTypes that passes the checks and asks for more
\* liquidity tokens than the supply has above MIN_LP_SUPPLY is not rejected
\* for that: whatever the supply, it does not end in CalculationFailure, and
\* when it succeeds it burns exactly supply - MIN_LP_SUPPLY and pays the
\* Floor conversion of that amount.
C25_ClampedNeverRejected ==
    [][(/\ last'.op = "WithdrawAllTokenTypes"
        /\ liquidity_checks(state, swap_info_data(pool, last'.args), last'.args, FALSE)
              = "Ok"
        /\ last'.args.pool_token_amount
              > MintSupply(ledger, last'.args.pool_mint) - MIN_LP_SUPPLY) =>
        LET a == last'.args
            supply == MintSupply(ledger, a.pool_mint)
            clamped == supply - MIN_LP_SUPPLY
            floor == pool_tokens_to_trading_tokens(clamped, supply,
                         TokenAmount(ledger, a.token_a), TokenAmount(ledger, a.token_b),
                         "Floor")
        IN  /\ last'.result # "CalculationFailure"
            /\ last'.result = "Ok" =>
                  /\ last'.issued[1].kind = "burn"
                  /\ last'.issued[1].amount = clamped
                  /\ MintSupply(ledger', a.pool_mint) = MIN_LP_SUPPLY
                  /\ PaidFrom(last'.issued, a.token_a) = floor.token_a_amount
                  /\ PaidFrom(last'.issued, a.token_b) = floor.token_b_amount]_vars

EndToEndRequests ==
    {[GoodSwap(d[1], d[2]) EXCEPT !.amount_in = n, !.minimum_amount_out = m] :
        d \in {<<"A", "B">>, <<"B", "A">>},
        n \in {1000, 999, 500, 1, 0},
        m \in {0, 997, 998, 999, 1000000}}

SwapEndToEnd ==
    /\ trades < MaxTrades
    /\ \E a \in EndToEndRequests :
        \E r \in {process_swap(state, swap_info_data(pool, a), ledger, a)} :
            Traded("Swap", a, r)

InitEndToEnd ==
    /\ state \in TradeConfigs
    /\ written = TRUE
    /\ pool = new_pool(GoodInitialize)
    /\ ledger = [amount |-> [k \in PoolSideKeys |->
                                IF k \in {"poolA", "poolB"} THEN 1000000
                                ELSE InitialAmount(k)],
                 supply |-> [m \in MintKeys |->
                                IF m = "lpMint" THEN INITIAL_SWAP_POOL_AMOUNT
                                ELSE InitialSupply(m)]]
    /\ trades = 0
    /\ last = NoInvocation
    /\ call = NoCall

NextEndToEnd == SwapEndToEnd

SpecEndToEnd == InitEndToEnd /\ [][NextEndToEnd]_vars

\* C27: on reserves 1,000,000 and 1,000,000 with fees 20 over 10000, a Swap
\* of 1,000 of asset A that passes the checks debits the net input 998 into
\* the pool, pays the fee of floor(1000 * 20 / 10000) = 2 to the fee
\* recipient's account and pays out 998 of asset B, the constant-product
\* output for 998 and not the one for 1,000, when minimum_amount_out is at
\* most 998; it is rejected with ExceededSlippage, issuing nothing, when
\* minimum_amount_out is greater.
C27_EndToEndSwap ==
    [][(/\ last'.op = "Swap"
        /\ swap_checks(state, swap_info_data(pool, last'.args), last'.args) = "Ok"
        /\ last'.args.swap_source = pool.token_a
        /\ last'.args.amount_in = 1000
        /\ TokenAmount(ledger, pool.token_a) = 1000000
        /\ TokenAmount(ledger, pool.token_b) = 1000000
        /\ state.fees = Fee(20, 10, 10000)) =>
        LET a == last'.args
            issued == last'.issued
            output == 1000000 - FloorMulDiv(1000000, 1000000, 1000000 + 998)
        IN  /\ output = 998
            /\ output # 1000000 - FloorMulDiv(1000000, 1000000, 1000000 + 1000)
            /\ a.minimum_amount_out <= output =>
                  /\ last'.result = "Ok"
                  /\ issued[1].to = pool.token_a
                  /\ issued[1].amount = 998
                  /\ IsFeePayment(issued[2], a)
                  /\ TokenInfo(issued[2].to).owner = state.fee_owner
                  /\ issued[2].amount = (1000 * 20) \div 10000
                  /\ issued[2].amount = 2
                  /\ issued[3].from = pool.token_b
                  /\ issued[3].amount = output
                  /\ TokenAmount(ledger', pool.token_a) = 1000998
                  /\ TokenAmount(ledger', pool.token_b) = 999002
            /\ a.minimum_amount_out > output =>
                  /\ last'.result = "ExceededSlippage"
                  /\ issued = <<>>
                  /\ ledger' = ledger]_vars

\* The swap of 1,000 of asset A that asks for at least 998 has gone through
\* and left reserves of 1,000,998 and 999,002.
C27_Witness ==
    /\ last.op = "Swap"
    /\ last.result = "Ok"
    /\ last.args.amount_in = 1000
    /\ last.args.minimum_amount_out = 998
    /\ state.fees = Fee(20, 10, 10000)
    /\ last.issued[2].amount = 2
    /\ last.issued[3].amount = 998
    /\ TokenAmount(ledger, "poolA") = 1000998
    /\ TokenAmount(ledger, "poolB") = 999002

\* C28: InitializePool succeeds only when both asset accounts it records
\* hold a balance above zero at the time of the call; a request rejected by
\* validate_supply mints nothing and writes no Pool record.
C28_NoEmptyReserve ==
    [][IsInitialize(last') =>
          /\ last'.result = "Ok" =>
                /\ TokenAmount(ledger, pool'.token_a) > 0
                /\ TokenAmount(ledger, pool'.token_b) > 0
          /\ last'.result = "EmptySupply" =>
                /\ last'.issued = <<>>
                /\ ledger' = ledger
                /\ pool' = pool
                /\ ~pool'.is_initialized]_vars

\* An initialization over an empty asset account has been rejected by
\* validate_supply, and the pool is still not initialized.
C28_Witness ==
    /\ IsInitialize(last)
    /\ last.result = "EmptySupply"
    /\ last.issued = <<>>
    /\ ~pool.is_initialized
    /\ TokenAmount(ledger, "emptyA") = 0
    /\ ledger.supply["lpMint"] = 0

\* The ledger after the token program has carried out the instructions
\* issued, in their order; a native transfer moves no token.
ApplyIssued(lg, issued) ==
    LET RECURSIVE Applied(_)
        Applied(i) ==
            IF i = 0 THEN lg
            ELSE LET m == issued[i]
                     before == Applied(i - 1)
                 IN  IF m.kind = "transfer"
                         THEN ledger_transfer(before, m.from, m.to, m.amount)
                     ELSE IF m.kind = "mint_to"
                         THEN ledger_mint_to(before, m.from, m.to, m.amount)
                     ELSE IF m.kind = "burn"
                         THEN ledger_burn(before, m.from, m.to, m.amount)
                     ELSE before
    IN  Applied(Len(issued))

\* C29: GlobalState changes only in UpdateGlobalState and the Pool record
\* only in InitializePool; Swap, the two deposits and the two withdrawals
\* leave every field of both unchanged, and the balances and supplies after
\* any pool operation are those before it with the transfer, mint and burn
\* instructions it issued applied, and nothing else.
C29_Frame ==
    [][/\ (state' # state \/ written' # written) => IsUpdate(last')
       /\ pool' # pool => IsInitialize(last')
       /\ IsTrade(last') => /\ state' = state
                            /\ written' = written
                            /\ pool' = pool
       /\ IsPoolOperation(last') => ledger' = ApplyIssued(ledger, last'.issued)
       /\ IsUpdate(last') => ledger' = ledger /\ pool' = pool]_vars

\* A swap has moved the reserves and left GlobalState and the Pool record
\* readable as before.
C29_Witness ==
    /\ last.op = "Swap"
    /\ last.result = "Ok"
    /\ Len(last.issued) = 3
    /\ TokenAmount(ledger, pool.token_a) # InitialAmount(pool.token_a)
    /\ TokenAmount(ledger, pool.token_b) # InitialAmount(pool.token_b)
    /\ pool = new_pool(GoodInitialize)
    /\ state.is_initialized

\* C30: an UpdateGlobalState that reaches an uninitialized record (the
\* derived address, a signing caller) populates it with the default owner,
\* is_initialized, the fee schedule 20, 10, 10000, the governance owner key
\* as fee recipient, the ConstantProduct curve and the default initial
\* supply before it compares the caller with the stored owner: the caller is
\* compared with the default owner, and a call rejected by that comparison
\* or by a later check leaves exactly the populated record.
C30_DefaultsBeforeOwnerCheck ==
    [][(/\ IsUpdate(last')
        /\ ~state.is_initialized
        /\ last'.state_key = AmmStateAddress
        /\ last'.is_signer) =>
          /\ last'.result = "InvalidStateOwner"
                <=> last'.cur_state_owner # INITIAL_STATE_OWNER
          /\ state'.is_initialized
          /\ ~state'.data_is_empty
          /\ last'.result # "Ok" =>
                /\ state'.state_owner = INITIAL_STATE_OWNER
                /\ state'.fees = Fee(20, 10, 10000)
                /\ state'.fee_owner = OWNER_KEY
                /\ state'.swap_curve.curve_type = "ConstantProduct"
                /\ state'.initial_supply = INITIAL_SWAP_POOL_AMOUNT]_vars

\* The default owner's first update has passed the owner comparison and been
\* rejected for its fee schedule, leaving the populated record.
C30_Witness ==
    /\ IsUpdate(last)
    /\ ~written
    /\ last.state_key = AmmStateAddress
    /\ last.is_signer
    /\ last.cur_state_owner = INITIAL_STATE_OWNER
    /\ last.result = "InvalidFee"
    /\ state.is_initialized
    /\ state.fees = Fee(20, 10, 10000)
    /\ state.fee_owner = OWNER_KEY

\* C31: an UpdateGlobalState naming a state address other than the derived
\* one returns InvalidStateAddress, one naming the derived address with a
\* caller that does not sign returns InvalidSigner, and either leaves the
\* GlobalState record as it was: an empty record stays empty and
\* uninitialized, nothing is allocated and no default is written.
C31_ChecksBeforeAllocation ==
    [][IsUpdate(last') =>
          /\ last'.state_key # AmmStateAddress =>
                (last'.result = "InvalidStateAddress" /\ state' = state)
          /\ (last'.state_key = AmmStateAddress /\ ~last'.is_signer) =>
                (last'.result = "InvalidSigner" /\ state' = state)
          /\ (last'.result \in {"InvalidStateAddress", "InvalidSigner"}
                /\ state.data_is_empty) =>
                (state'.data_is_empty /\ ~state'.is_initialized)]_vars

\* A caller that does not sign has been turned away at the derived address
\* while the record is still empty.
C31_Witness ==
    /\ IsUpdate(last)
    /\ last.state_key = AmmStateAddress
    /\ ~last.is_signer
    /\ last.result = "InvalidSigner"
    /\ state = EmptyState

(***************************************************************************)
(* UpdateGlobalState with the whole request in the digest: the arguments   *)
(* and the is_signer flag of new_state_owner_info, which the handler never *)
(* reads.                                                                  *)
(***************************************************************************)
FullUpdateArgs ==
    {UpdateArg(AmmStateAddress, s, c, n, o, i, f, ConstantProductSwapCurve) :
        s \in BOOLEAN, c \in Keys, n \in Keys, o \in FeeOwnerArgs, i \in SupplyArgs,
        f \in {Fee(21, 11, 10000), Fee(19, 10, 10000)}}

UpdateGlobalStateInFull ==
    \E a \in FullUpdateArgs, new_owner_is_signer \in BOOLEAN :
        \E r \in {process_update_state(state, a)} :
            /\ state' = r.state
            /\ written' = (written \/ r.result = "Ok")
            /\ last' = [op |-> "UpdateGlobalState", result |-> r.result,
                        state_key |-> a.state_key, is_signer |-> a.is_signer,
                        cur_state_owner |-> a.cur_state_owner,
                        new_state_owner |-> a.new_state_owner,
                        new_owner_is_signer |-> new_owner_is_signer,
                        fee_owner |-> a.fee_owner,
                        initial_supply |-> a.initial_supply,
                        fees |-> a.fees, swap_curve |-> a.swap_curve]
            /\ UNCHANGED <<pool, ledger, trades, call>>

NextUpdate == UpdateGlobalStateInFull

SpecUpdate == Init /\ [][NextUpdate]_vars

\* C32: a successful UpdateGlobalState leaves the record initialized and
\* holding exactly the initial_supply, fees and curve of the request, the
\* new-owner key as state_owner and the fee-owner key as fee_owner; whether
\* it succeeds depends neither on the new owner signing nor on the fee owner
\* or the initial supply requested (any fee owner and an initial supply of
\* 0 are stored as given).
C32_SuccessfulUpdateStoresRequest ==
    [][IsUpdate(last') =>
          /\ last'.result = "Ok" =>
                /\ state'.is_initialized
                /\ ~state'.data_is_empty
                /\ state'.initial_supply = last'.initial_supply
                /\ state'.fees = last'.fees
                /\ state'.swap_curve = last'.swap_curve
                /\ state'.state_owner = last'.new_state_owner
                /\ state'.fee_owner = last'.fee_owner
          /\ \A o \in FeeOwnerArgs, i \in SupplyArgs :
                process_update_state(state,
                    UpdateArg(last'.state_key, last'.is_signer, last'.cur_state_owner,
                              last'.new_state_owner, o, i, last'.fees,
                              last'.swap_curve)).result = last'.result]_vars

\* An update has succeeded whose new owner did not sign, whose fee owner is
\* not the governance owner key and whose initial supply is 0, and the
\* record holds all three.
C32_Witness ==
    /\ IsUpdate(last)
    /\ last.result = "Ok"
    /\ ~last.new_owner_is_signer
    /\ last.new_state_owner # last.cur_state_owner
    /\ state.state_owner = last.new_state_owner
    /\ state.fee_owner # OWNER_KEY
    /\ state.initial_supply = 0
    /\ state.initial_supply < MIN_LP_SUPPLY
    /\ state.fees = last.fees

\* The amount the instructions issued take from the user of the swap
\* request a: token transfers out of the source account and native
\* transfers out of the user's authority.
DebitedFromUser(issued, a) ==
    LET RECURSIVE Sum(_)
        Sum(i) == IF i = 0 THEN 0
                  ELSE Sum(i - 1)
                         + (IF \/ issued[i].kind = "transfer" /\ issued[i].from = a.source
                               \/ /\ issued[i].kind = "system_transfer"
                                  /\ issued[i].from = a.user_transfer_authority
                            THEN issued[i].amount ELSE 0)
    IN  Sum(Len(issued))

\* The amount the instructions issued pay as protocol fee of the request a.
PaidAsFee(issued, a) ==
    LET RECURSIVE Sum(_)
        Sum(i) == IF i = 0 THEN 0
                  ELSE Sum(i - 1) + (IF IsFeePayment(issued[i], a)
                                     THEN issued[i].amount ELSE 0)
    IN  Sum(Len(issued))

\* C33: in every successful Swap the pool's source account grows by
\* source_amount_swapped - owner_fee, the fee recipient is paid owner_fee,
\* the pool's destination account shrinks by destination_amount_swapped,
\* which goes to the user's destination account; the user is debited
\* source_amount_swapped in all, owner_fee is at most source_amount_swapped,
\* and all of the debit that is not the protocol fee is in the pool.
C33_SwapAccounting ==
    [][(last'.op = "Swap" /\ last'.result = "Ok") =>
        LET a == last'.args
            issued == last'.issued
            quote == QuoteOf(state, pool, ledger, a)
            received == TokenAmount(ledger', a.swap_source) - TokenAmount(ledger, a.swap_source)
            released == TokenAmount(ledger, a.swap_destination)
                            - TokenAmount(ledger', a.swap_destination)
        IN  /\ ~quote.none
            /\ quote.owner_fee <= quote.source_amount_swapped
            /\ received = quote.source_amount_swapped - quote.owner_fee
            /\ PaidAsFee(issued, a) = quote.owner_fee
            /\ released = quote.destination_amount_swapped
            /\ PaidFrom(issued, a.swap_destination) = released
            /\ \A i \in 1..Len(issued) :
                  (issued[i].kind = "transfer" /\ issued[i].from = a.swap_destination)
                      => issued[i].to = a.destination
            /\ DebitedFromUser(issued, a) = quote.source_amount_swapped
            /\ DebitedFromUser(issued, a) - PaidAsFee(issued, a) = received]_vars

\* Under a fee of 50 over 10000 a swap of 1000 of asset A has put 995 into
\* the pool's account of A and paid 5 to the fee account.
C33_Witness ==
    /\ last.op = "Swap"
    /\ last.result = "Ok"
    /\ state.fees.fixed_fee_numerator = 50
    /\ last.args.swap_source = "poolA"
    /\ last.args.amount_in = 1000
    /\ TokenAmount(ledger, "poolA") = 1395
    /\ PaidAsFee(last.issued, last.args) = 5
    /\ DebitedFromUser(last.issued, last.args) = 1000

(***************************************************************************)
(* An initialized pool whose GlobalState is updated between trades: the    *)
(* state owner changes the fee schedule and the fee owner, and swaps and   *)
(* single-asset deposits and withdrawals follow.                           *)
(***************************************************************************)
MaxReconfiguredTrades == 2

ReconfiguredFees == {Fee(20, 10, 10000), Fee(500, 10, 10000)}

ReconfigureRequests ==
    {UpdateArg(AmmStateAddress, TRUE, INITIAL_STATE_OWNER, INITIAL_STATE_OWNER, o,
               INITIAL_SWAP_POOL_AMOUNT, f, ConstantProductSwapCurve) :
        o \in FeeOwnerArgs, f \in ReconfiguredFees}
        \cup {UpdateArg(AmmStateAddress, TRUE, INITIAL_STATE_OWNER, INITIAL_STATE_OWNER,
                        UserKey, INITIAL_SWAP_POOL_AMOUNT, Fee(19, 10, 10000),
                        ConstantProductSwapCurve)}

ReconfiguredSwapRequests ==
    {[GoodSwap("A", "B") EXCEPT !.amount_in = 1000, !.fixed_fee_wallet = w,
                                !.fixed_fee_account = f] :
        w \in FeeOwnerArgs, f \in {"feeA", "userA"}}
        \cup {[GoodSwap("B", "A") EXCEPT !.amount_in = 1000, !.fixed_fee_wallet = w] :
                 w \in FeeOwnerArgs}
        \cup {[GoodSwap("A", "B") EXCEPT !.amount_in = 1000, !.fixed_fee_account = "feeB"]}

UpdateBetweenTrades ==
    \E a \in ReconfigureRequests :
        \E r \in {process_update_state(state, a)} :
            /\ state' = r.state
            /\ written' = (written \/ r.result = "Ok")
            /\ last' = [op |-> "UpdateGlobalState", result |-> r.result,
                        issued |-> <<>>, args |-> a]
            /\ UNCHANGED <<pool, ledger, trades, call>>

SwapReconfigured ==
    /\ trades < MaxReconfiguredTrades
    /\ \E a \in ReconfiguredSwapRequests :
        \E r \in {process_swap(state, swap_info_data(pool, a), ledger, a)} :
            Traded("Swap", a, r)

DepositSingleReconfigured ==
    /\ trades < MaxReconfiguredTrades
    /\ \E a \in {GoodSingle("A") @@ [source_token_amount |-> 100,
                                      minimum_pool_token_amount |-> 0]} :
        \E r \in {process_deposit_single_token_type_exact_amount_in(
                      state, swap_info_data(pool, a), ledger, a)} :
            Traded("DepositSingleTokenTypeExactAmountIn", a, r)

WithdrawSingleReconfigured ==
    /\ trades < MaxReconfiguredTrades
    /\ \E a \in {GoodSingle("A") @@ [destination_token_amount |-> 100,
                     maximum_pool_token_amount |-> 2 * INITIAL_SWAP_POOL_AMOUNT]} :
        \E r \in {process_withdraw_single_token_type_exact_amount_out(
                      state, swap_info_data(pool, a), ledger, a)} :
            Traded("WithdrawSingleTokenTypeExactAmountOut", a, r)

\* The pool of GoodInitialize, initialized while GlobalState held the
\* defaults.
InitReconfigure ==
    /\ state = DefaultState
    /\ written = FALSE
    /\ pool = new_pool(GoodInitialize)
    /\ ledger = [amount |-> [k \in PoolSideKeys |-> InitialAmount(k)],
                 supply |-> [m \in MintKeys |->
                                IF m = "lpMint" THEN DefaultState.initial_supply
                                ELSE InitialSupply(m)]]
    /\ trades = 0
    /\ last = NoInvocation
    /\ call = NoCall

NextReconfigure ==
    \/ UpdateBetweenTrades
    \/ SwapReconfigured
    \/ DepositSingleReconfigured
    \/ WithdrawSingleReconfigured

SpecReconfigure == InitReconfigure /\ [][NextReconfigure]_vars

\* C34: a Swap succeeds only if the fee wallet it names is the fee_owner
\* stored in GlobalState at that moment and, when the source asset is not
\* the wrapped native asset, its fee token account is owned by that
\* fee_owner and holds the source asset's mint; the fee is then paid to
\* that wallet (native) or that account (token).  A request that is
\* otherwise acceptable gets InvalidOwner for another wallet and
\* IncorrectFeeAccount for a fee account of another owner or mint, with
\* nothing issued; a successful update makes the fee owner it names the
\* stored one, so that a swap naming the former one is rejected.
C34_FeeGoesToStoredRecipient ==
    [][/\ (IsUpdate(last') /\ last'.result = "Ok") =>
              state'.fee_owner = last'.args.fee_owner
       /\ (last'.op = "Swap") =>
          LET a == last'.args
              issued == last'.issued
              source_account == TokenInfo(a.swap_source)
              fee_account == TokenInfo(a.fixed_fee_account)
              native == source_account.mint = WSOL_MINT_ADDRESS
              fee_account_fits == /\ fee_account.owner = state.fee_owner
                                  /\ fee_account.mint = source_account.mint
              otherwise == swap_checks(state, pool,
                               [a EXCEPT !.fixed_fee_wallet = state.fee_owner])
          IN  /\ last'.result = "Ok" =>
                    /\ a.fixed_fee_wallet = state.fee_owner
                    /\ ~native => fee_account_fits
                    /\ Len(issued) = 3
                    /\ native => (issued[2].kind = "system_transfer"
                                    /\ issued[2].to = state.fee_owner)
                    /\ ~native => (issued[2].kind = "transfer"
                                     /\ TokenInfo(issued[2].to).owner = state.fee_owner)
              /\ (a.fixed_fee_wallet # state.fee_owner
                    /\ otherwise \in {"Ok", "IncorrectFeeAccount"}) =>
                    (last'.result = "InvalidOwner" /\ issued = <<>> /\ ledger' = ledger)
              /\ (a.fixed_fee_wallet = state.fee_owner /\ ~native /\ ~fee_account_fits
                    /\ otherwise \in {"Ok", "IncorrectFeeAccount"}) =>
                    (last'.result = "IncorrectFeeAccount" /\ issued = <<>>
                        /\ ledger' = ledger)]_vars

\* After the fee owner has been changed from the governance owner key to
\* another key, a swap naming the governance owner key and its fee account
\* has been rejected.
C34_Witness ==
    /\ last.op = "Swap"
    /\ state.fee_owner = UserKey
    /\ DefaultState.fee_owner = OWNER_KEY
    /\ last.args.fixed_fee_wallet = OWNER_KEY
    /\ last.args.fixed_fee_account = "feeA"
    /\ last.result = "InvalidOwner"
    /\ last.issued = <<>>

\* C35: no withdrawal fee is taken.  A successful WithdrawAllTokenTypes
\* burns exactly the smaller of the requested amount and the supply less
\* MIN_LP_SUPPLY, a successful WithdrawSingleTokenTypeExactAmountOut burns
\* exactly the amount the curve computes, and every instruction a
\* withdrawal issues is that one burn of the user's liquidity tokens or a
\* payout from an asset account of the pool to the user's account named in
\* the request: none pays a fee.
C35_NoWithdrawFee ==
    [][(last'.op \in {"WithdrawAllTokenTypes", "WithdrawSingleTokenTypeExactAmountOut"}) =>
        LET a == last'.args
            issued == last'.issued
            supply == MintSupply(ledger, a.pool_mint)
            all == last'.op = "WithdrawAllTokenTypes"
            burned == IF all THEN Min(a.pool_token_amount, supply - MIN_LP_SUPPLY)
                      ELSE WithdrawSingleAmount(state, ledger, a).amount
            recipients == IF all THEN {a.user_a, a.user_b} ELSE {a.user}
        IN  /\ last'.result = "Ok" =>
                  /\ Len(issued) >= 1
                  /\ issued[1].kind = "burn"
                  /\ issued[1].from = a.user_lp
                  /\ issued[1].amount = burned
                  /\ MintSupply(ledger', a.pool_mint) = supply - burned
                  /\ Len(issued) <= (IF all THEN 3 ELSE 2)
            /\ \A i \in 1..Len(issued) :
                  \/ i = 1 /\ issued[i].kind = "burn"
                  \/ /\ i > 1
                     /\ issued[i].kind = "transfer"
                     /\ issued[i].from \in {a.token_a, a.token_b}
                     /\ issued[i].to \in recipients]_vars

\* A withdrawal of 250000 liquidity tokens of a supply of 1000000 has burned
\* 250000 and paid out 100 and 150, and nothing else.
C35_Witness ==
    /\ last.op = "WithdrawAllTokenTypes"
    /\ last.result = "Ok"
    /\ last.args.pool_token_amount = 250000
    /\ Len(last.issued) = 3
    /\ last.issued[1].kind = "burn"
    /\ last.issued[1].amount = 250000
    /\ MintSupply(ledger, "lpMint") = 750000
    /\ last.issued[2].amount = 100
    /\ last.issued[3].amount = 150

\* C36: when the supply of the liquidity mint is 0 the deposit handlers do
\* not size the mint by the caller's amount.  DepositAllTokenTypes takes
\* GlobalState.initial_supply both as the amount and as the supply: its
\* outcome is the same for every requested amount, and when it succeeds it
\* takes the whole of both reserves and mints initial_supply.
\* DepositSingleTokenTypeExactAmountIn that passes its checks does not
\* consult the curve: it returns ExceededSlippage when initial_supply is
\* below the minimum asked, ZeroTradingTokens when initial_supply is 0, and
\* otherwise transfers source_token_amount, 0 included, and mints
\* initial_supply.
C36_EmptySupplyDeposits ==
    [][(/\ last'.op \in {"DepositAllTokenTypes", "DepositSingleTokenTypeExactAmountIn"}
        /\ MintSupply(ledger, last'.args.pool_mint) = 0
        /\ last'.args.pool_mint = pool.pool_mint) =>
        LET a == last'.args
            issued == last'.issued
            rec == swap_info_data(pool, a)
        IN  IF last'.op = "DepositAllTokenTypes"
            THEN /\ \A p \in {0, 1, a.pool_token_amount, 2 * INITIAL_SWAP_POOL_AMOUNT} :
                      LET r == process_deposit_all_token_types(state, rec, ledger,
                                   [a EXCEPT !.pool_token_amount = p])
                      IN  r.result = last'.result /\ r.issued = issued
                 /\ last'.result = "Ok" =>
                      /\ Len(issued) = 3
                      /\ issued[1].amount = TokenAmount(ledger, a.token_a)
                      /\ issued[2].amount = TokenAmount(ledger, a.token_b)
                      /\ issued[3].kind = "mint_to"
                      /\ issued[3].amount = state.initial_supply
                      /\ MintSupply(ledger', a.pool_mint) = state.initial_supply
            ELSE single_checks(state, rec, a) = "Ok" =>
                    IF state.initial_supply < a.minimum_pool_token_amount
                        THEN last'.result = "ExceededSlippage" /\ issued = <<>>
                    ELSE IF state.initial_supply = 0
                        THEN last'.result = "ZeroTradingTokens" /\ issued = <<>>
                    ELSE /\ last'.result = "Ok"
                         /\ Len(issued) = 2
                         /\ issued[1].kind = "transfer"
                         /\ issued[1].amount = a.source_token_amount
                         /\ issued[2].kind = "mint_to"
                         /\ issued[2].amount = state.initial_supply
                         /\ MintSupply(ledger', a.pool_mint) = state.initial_supply]_vars

\* On a liquidity mint with no supply a single-asset deposit of nothing has
\* minted the whole initial supply.
C36_Witness ==
    /\ last.op = "DepositSingleTokenTypeExactAmountIn"
    /\ last.result = "Ok"
    /\ last.args.source_token_amount = 0
    /\ Len(last.issued) = 2
    /\ last.issued[1].amount = 0
    /\ last.issued[2].amount = INITIAL_SWAP_POOL_AMOUNT
    /\ MintSupply(ledger, "lpMint") = INITIAL_SWAP_POOL_AMOUNT
    /\ trades = 1

\* The instruction m takes from the user: a transfer or a native transfer
\* on the user's authority, or a burn.
TakesFromUser(m, a) ==
    \/ m.kind \in {"transfer", "system_transfer"} /\ m.authority = a.user_transfer_authority
    \/ m.kind = "burn"

\* The instruction m gives to the user: a mint, or a transfer on the
\* authority of the pool.
GivesToUser(m, a) ==
    \/ m.kind = "mint_to"
    \/ m.kind = "transfer" /\ m.authority = a.authority

\* C37: in the four liquidity handlers no instruction that takes from the
\* user is issued after one that gives to the user, and the order is fixed:
\* DepositAllTokenTypes transfers A in, then B in, then mints;
\* DepositSingleTokenTypeExactAmountIn transfers in, then mints;
\* WithdrawAllTokenTypes burns, then pays A, then pays B, issuing no
\* transfer of amount 0; WithdrawSingleTokenTypeExactAmountOut burns, then
\* pays out.
C37_LiquidityMutationOrder ==
    [][(IsTrade(last') /\ last'.op # "Swap" /\ last'.issued # <<>>) =>
        LET a == last'.args
            issued == last'.issued
            n == Len(issued)
            In(m, from, to) == /\ m.kind = "transfer"
                               /\ m.from = from
                               /\ m.to = to
                               /\ m.authority = a.user_transfer_authority
            Out(m, from, to) == /\ m.kind = "transfer"
                                /\ m.from = from
                                /\ m.to = to
                                /\ m.authority = a.authority
            Mint(m) == m.kind = "mint_to" /\ m.from = a.pool_mint /\ m.to = a.user_lp
            Burn(m) == m.kind = "burn" /\ m.from = a.user_lp /\ m.to = a.pool_mint
            side == IF single_trade_direction(a) = "AtoB" THEN a.token_a ELSE a.token_b
        IN  /\ \A i \in 1..n, j \in 1..n :
                  (i < j /\ GivesToUser(issued[i], a)) => ~TakesFromUser(issued[j], a)
            /\ last'.op = "DepositAllTokenTypes" =>
                  /\ n = 3
                  /\ In(issued[1], a.user_a, a.token_a)
                  /\ In(issued[2], a.user_b, a.token_b)
                  /\ Mint(issued[3])
            /\ last'.op = "DepositSingleTokenTypeExactAmountIn" =>
                  /\ n = 2
                  /\ In(issued[1], a.user, side)
                  /\ Mint(issued[2])
            /\ last'.op = "WithdrawAllTokenTypes" =>
                  /\ n <= 3
                  /\ Burn(issued[1])
                  /\ \A i \in 2..n :
                        /\ issued[i].amount > 0
                        /\ \/ Out(issued[i], a.token_a, a.user_a) /\ i = 2
                           \/ Out(issued[i], a.token_b, a.user_b)
                  /\ n = 3 => Out(issued[2], a.token_a, a.user_a)
            /\ last'.op = "WithdrawSingleTokenTypeExactAmountOut" =>
                  /\ n = 2
                  /\ Burn(issued[1])
                  /\ Out(issued[2], side, a.user)]_vars

\* A deposit of both assets has taken 100 of A, then 150 of B, and then
\* minted 250000 liquidity tokens.
C37_Witness ==
    /\ last.op = "DepositAllTokenTypes"
    /\ last.result = "Ok"
    /\ Len(last.issued) = 3
    /\ last.issued[1].to = "poolA"
    /\ last.issued[1].amount = 100
    /\ last.issued[2].to = "poolB"
    /\ last.issued[2].amount = 150
    /\ last.issued[3].kind = "mint_to"
    /\ last.issued[3].amount = 250000

\* C38: the Pool record holds no fee schedule, curve or fee owner and an
\* update of GlobalState does not touch it; a successful update stores the
\* fees, curve and fee owner it is given, and every Swap and single-asset
\* deposit or withdrawal on the pool takes them from GlobalState as it is
\* when the operation runs: the swap fee is the stored fixed fee fraction
\* of the amount and goes to the stored fee owner, and the liquidity tokens
\* minted or burned are what the stored curve computes under the stored
\* fees, whatever GlobalState held when the pool was initialized.
C38_ConfigurationReadAtUse ==
    [][LET a == last'.args
           issued == last'.issued
       IN  /\ {"fees", "fee_owner", "swap_curve"} \cap DOMAIN pool = {}
           /\ IsUpdate(last') => pool' = pool
           /\ (IsUpdate(last') /\ last'.result = "Ok") =>
                 /\ state'.fees = a.fees
                 /\ state'.swap_curve = a.swap_curve
                 /\ state'.fee_owner = a.fee_owner
           /\ (last'.op = "Swap" /\ last'.result = "Ok") =>
                 /\ issued[2].amount
                       = (a.amount_in * state.fees.fixed_fee_numerator)
                             \div state.fees.fee_denominator
                 /\ issued[1].amount + issued[2].amount = a.amount_in
                 /\ a.fixed_fee_wallet = state.fee_owner
                 /\ issued[2].kind = "transfer"
                       => TokenInfo(issued[2].to).owner = state.fee_owner
           /\ (last'.op = "DepositSingleTokenTypeExactAmountIn" /\ last'.result = "Ok") =>
                 /\ issued[2].kind = "mint_to"
                 /\ issued[2].amount
                       = deposit_single_token_type(a.source_token_amount,
                             TokenAmount(ledger, a.token_a), TokenAmount(ledger, a.token_b),
                             MintSupply(ledger, a.pool_mint), single_trade_direction(a),
                             state.fees).amount
           /\ (last'.op = "WithdrawSingleTokenTypeExactAmountOut" /\ last'.result = "Ok") =>
                 /\ issued[1].kind = "burn"
                 /\ issued[1].amount
                       = withdraw_single_token_type_exact_out(a.destination_token_amount,
                             TokenAmount(ledger, a.token_a), TokenAmount(ledger, a.token_b),
                             MintSupply(ledger, a.pool_mint), single_trade_direction(a),
                             state.fees).amount]_vars

\* Two swaps of 1000 of asset A on the same pool, one under the schedule
\* the pool was initialized under (fee 2) and one under the schedule and
\* fee owner of a later update (fee 50, to the new fee owner's account),
\* the latter last.
C38_Witness ==
    /\ trades = 2
    /\ last.op = "Swap"
    /\ last.result = "Ok"
    /\ state.fees = Fee(500, 10, 10000)
    /\ state.fee_owner = UserKey
    /\ DefaultState.fees = Fee(20, 10, 10000)
    /\ last.issued[2].amount = 50
    /\ last.issued[2].kind = "transfer"
    /\ last.issued[2].to = "userA"
    /\ TokenAmount(ledger, "poolA") = 400 + 998 + 950

\* x * y >= u * v, for products that fit the integers of the model.
ProductAtLeast(x, y, u, v) ==
    (x = 0 \/ y <= U64_MAX \div x) /\ (u = 0 \/ v <= U64_MAX \div u) => x * y >= u * v

\* C39: on a pool whose liquidity mint has a supply above 0, a successful
\* DepositAllTokenTypes or WithdrawAllTokenTypes leaves
\* new_reserve * old_supply >= old_reserve * new_supply for asset A and for
\* asset B.  With d the amount a deposit takes for p liquidity tokens this
\* is d * old_supply >= old_reserve * p, and with w the amount a withdrawal
\* pays for p burned it is old_reserve * p >= w * old_supply.  A
\* withdrawal pays out of each asset at most the reserve of it.
C39_NoDilution ==
    [][(/\ last'.op \in {"DepositAllTokenTypes", "WithdrawAllTokenTypes"}
        /\ last'.result = "Ok"
        /\ MintSupply(ledger, pool.pool_mint) > 0) =>
        LET old_supply == MintSupply(ledger, pool.pool_mint)
            new_supply == MintSupply(ledger', pool.pool_mint)
            Backed(k) ==
                LET old_reserve == TokenAmount(ledger, k)
                    new_reserve == TokenAmount(ledger', k)
                IN  /\ ProductAtLeast(new_reserve, old_supply, old_reserve, new_supply)
                    /\ new_reserve >= 0
                    /\ IF last'.op = "DepositAllTokenTypes"
                       THEN /\ new_supply > old_supply
                            /\ (new_reserve - old_reserve) * old_supply
                                  >= old_reserve * (new_supply - old_supply)
                       ELSE /\ new_supply <= old_supply
                            /\ old_reserve * (old_supply - new_supply)
                                  >= (old_reserve - new_reserve) * old_supply
                            /\ PaidFrom(last'.issued, k) = old_reserve - new_reserve
                            /\ PaidFrom(last'.issued, k) <= old_reserve
        IN  Backed(pool.token_a) /\ Backed(pool.token_b)]_vars

\* A withdrawal has left each remaining liquidity token backed by strictly
\* more of asset A than before it: with the amounts it burned and paid put
\* back, the reserve times the former supply exceeds the former reserve
\* times the supply.
C39_Witness ==
    /\ last.op = "WithdrawAllTokenTypes"
    /\ last.result = "Ok"
    /\ LET new_reserve == TokenAmount(ledger, "poolA")
           new_supply == MintSupply(ledger, "lpMint")
           old_reserve == new_reserve + PaidFrom(last.issued, "poolA")
           old_supply == new_supply + last.issued[1].amount
       IN  /\ last.issued[1].kind = "burn"
           /\ old_reserve <= 1000
           /\ old_supply <= 2 * INITIAL_SWAP_POOL_AMOUNT
           /\ new_reserve * old_supply > old_reserve * new_supply

====
